---- MODULE Spec2Model ----
(***************************************************************************)
(* Model of the cwdecoder signal pipeline: the CW element Decoder          *)
(* (internal/cw/morse.go) and the tone-presence Detector                   *)
(* (internal/dsp/detector.go).                                             *)
(*                                                                         *)
(* float64 quantities are modelled as exact rationals <<n, d>> (d > 0, in  *)
(* lowest terms); time.Duration values are integers in microseconds.       *)
(***************************************************************************)
EXTENDS Integers, Naturals, Sequences, FiniteSets, TLC

VARIABLES
    config,         \* Decoder.config (DecoderConfig)
    ditDurationMs,  \* Decoder.ditDurationMs, a rational
    treeIndex,      \* Decoder.treeIndex
    inChar,         \* Decoder.inChar
    callbackPtr,    \* Decoder.callbackPtr: "nil" or "cb"
    received,       \* outputs delivered to the registered callback, in order
    evCount,        \* number of tone events handled so far
    elems,          \* history: tone durations of the character under construction
    last,           \* history: the last Decoder operation and the state it found
    lastWPM,        \* value returned by CurrentWPM when it was the last call, else 0
    exactOnly,      \* history: only ITU-exact tone-off events were fed so far
    run,            \* history: tone-off events since the last character gap or Reset
    pat,            \* dictionary feed: index into CommonPatterns (0 = no feed)
    pos,            \* dictionary feed: number of feed events delivered
    dcfg,           \* Detector.config (DetectorConfig)
    det,            \* Detector state: agcPeak, warmupCounter, toneState, ...
    now,            \* the clock read by time.Now()
    blocks,         \* number of blocks processed since construction
    emitted,        \* the ToneEvent emitted by the last block, or NoEvent
    hist,           \* history: recent post-warmup blocks since construction or Reset
    overlapBuffer,  \* Detector.overlapBuffer: the samples carried over, by position
    blockSize,      \* Detector.blockSize
    overlapSize,    \* Detector.overlapSize
    hopSize,        \* Detector.hopSize
    detCallbackPtr, \* Detector.callbackPtr: the two words of the stored pointer
    pc,             \* where the thread inside Process stands: idle, loop or call
    loaded,         \* emitEvent's cbPtr: the pointer it loaded
    log,            \* history: confirmed transitions and Resets, in order
    delivered,      \* history: callback invocations, in order
    pushed,         \* history: samples pushed since construction or Reset
    stored,         \* history: the callbacks SetCallback was given
    fresh,          \* reference Detector, newly constructed at the last Reset
    freshEmitted,   \* the ToneEvent the reference Detector emitted for the last block
    resetDone,      \* a Reset has been performed
    aconfig,        \* AdaptiveDecoder.config (AdaptiveConfig)
    elementBuffer,  \* AdaptiveDecoder.elementBuffer
    patternMatches, \* AdaptiveDecoder.patternMatches, keyed by dictionary position
    correctedCallback, \* AdaptiveDecoder.correctedCallback: "nil" or "cb"
    corrected,      \* the CorrectedOutputs handed to the corrected callback, in order
    interCharBoundary, \* Decoder.config.InterCharBoundary
    recorded,       \* history: RecordElement calls since construction or Reset
    lastRecord,     \* history: what the last pattern-layer call read and did
    mu,             \* Decoder.mu: the goroutine holding it, or 0
    amu,            \* AdaptiveDecoder.mu: the goroutine holding it, or 0
    thr,            \* where each goroutine stands inside a Decoder or pattern-layer call
    capture,        \* Capture: running, closed, ctx, device, mu and closeOnce
    samples,        \* Capture.Samples: the buffers queued and whether it is closed
    devs,           \* the malgo devices created so far, by number: their state
    cth,            \* where each thread stands inside a Capture method or callback
    pending,        \* cancellation handlers spawned by Start and not yet run
    chist,          \* history of the Capture: closes, panics, the last hand-off
    gconfig,        \* the GoertzelConfig handed to NewGoertzel
    goertzel        \* what NewGoertzel returned: the estimator and the error

decVars == <<config, ditDurationMs, treeIndex, inChar, callbackPtr, received,
             evCount, elems, last, lastWPM, exactOnly, run>>
feedVars == <<pat, pos>>
dspVars == <<gconfig, goertzel>>
audioVars == <<capture, samples, devs, cth, pending, chist, dspVars>>
lockVars == <<mu, amu, thr, audioVars>>
adaVars == <<aconfig, elementBuffer, patternMatches, correctedCallback, corrected,
             interCharBoundary, recorded, lastRecord, lockVars>>
geomVars == <<blockSize, overlapSize, hopSize>>
cbVars == <<detCallbackPtr, pc, loaded, log, delivered, pushed, stored>>
procVars == <<overlapBuffer, geomVars, cbVars>>
detVars == <<dcfg, det, now, blocks, emitted, hist, procVars>>
refVars == <<fresh, freshEmitted, resetDone>>
vars == <<decVars, feedVars, adaVars, detVars, refVars>>

----------------------------------------------------------------------------
(* Bounds of the model *)

MaxEvents == 6
MaxDitDen == 100
MaxBlocks == 6
MaxPeakDen == 4000
MaxHist == 4

----------------------------------------------------------------------------
(* Exact rational arithmetic standing in for float64 *)

RECURSIVE GCD(_, _)
GCD(a, b) == IF b = 0 THEN a ELSE GCD(b, a % b)

Norm(n, d) == LET g == GCD(n, d) IN <<n \div g, d \div g>>

RInt(i) == <<i, 1>>
RAdd(a, b) == Norm(a[1] * b[2] + b[1] * a[2], a[2] * b[2])
RSub(a, b) == Norm(a[1] * b[2] - b[1] * a[2], a[2] * b[2])
RMul(a, b) == Norm(a[1] * b[1], a[2] * b[2])
RDiv(a, b) == Norm(a[1] * b[2], a[2] * b[1])
RGt(a, b) == a[1] * b[2] > b[1] * a[2]
RLe(a, b) == ~RGt(a, b)
ROne == <<1, 1>>
RZero == <<0, 1>>

----------------------------------------------------------------------------
(* Constants of internal/cw/morse.go *)

DahDitRatio == 3
IntraCharSpaceRatio == 1
MillisecondsPerMinute == 60000
DitsPerWord == 50
AdaptiveWeightOld == <<9, 10>>

NoChar == ""

MorseTreeSlots ==
    << NoChar, NoChar, "E", "T", "I", "A", "N", "M",
       "S", "U", "R", "W", "D", "K", "G", "O",
       "H", "V", "F", NoChar, "L", NoChar, "P", "J",
       "B", "X", "C", "Y", "Z", "Q", NoChar, NoChar,
       "5", "4", NoChar, "3", NoChar, NoChar, NoChar, "2",
       NoChar, NoChar, NoChar, NoChar, NoChar, NoChar, NoChar, "1",
       "6", "=", "/", NoChar, NoChar, NoChar, NoChar, NoChar,
       "7", NoChar, NoChar, NoChar, "8", NoChar, "9", "0" >>

LenMorseTree == Len(MorseTreeSlots)

MorseTree == [i \in 0..(LenMorseTree - 1) |-> MorseTreeSlots[i + 1]]

----------------------------------------------------------------------------
(* Decoder *)

\* time.Duration.Milliseconds(): whole milliseconds, truncated
Milliseconds(us) == us \div 1000

InitialDit(cfg) == Norm(MillisecondsPerMinute, cfg.InitialWPM * DitsPerWord)

\* NewDecoder's acceptance conditions
ValidDecoderConfig(cfg) ==
    /\ cfg.InitialWPM > 0
    /\ cfg.FarnsworthWPM >= 0 /\ cfg.FarnsworthWPM <= cfg.InitialWPM
    /\ RLe(RZero, cfg.AdaptiveSmoothing) /\ RLe(cfg.AdaptiveSmoothing, ROne)
    /\ RGt(cfg.DitDahBoundary, RZero)
    /\ RGt(cfg.CharWordBoundary, RZero)

\* dit/dah classification in handleToneEnd
IsDah(durationMs, dit, cfg) ==
    RGt(RInt(durationMs), RMul(dit, cfg.DitDahBoundary))

\* adaptTiming: both assignments to d.ditDurationMs, in order; the second
\* reads the value the first one stored
AdaptTiming(durationMs, isDah, dit, cfg) ==
    LET estimatedDit == IF isDah THEN <<durationMs, DahDitRatio>>
                                 ELSE RInt(durationMs)
        smoothing == cfg.AdaptiveSmoothing
        first == RAdd(RMul(AdaptiveWeightOld, dit), RMul(smoothing, estimatedDit))
    IN  RAdd(RMul(RSub(ROne, smoothing), first), RMul(smoothing, estimatedDit))

\* currentWPM: int(60000 / (dit * 50) + 0.5), the fraction reduced by 50
CurrentWPMOf(dit, cfg) ==
    IF dit[1] <= 0 THEN cfg.InitialWPM
    ELSE (2 * (MillisecondsPerMinute \div DitsPerWord) * dit[2] + dit[1])
             \div (2 * dit[1])

\* branches swapped: dit to the right, dah to the left
TreeStepSwapped(idx, isDah) == IF isDah THEN idx * 2 ELSE idx * 2 + 1

\* the tree move of handleToneEnd
TreeStep(idx, isDah) == IF isDah THEN idx * 2 + 1 ELSE idx * 2

\* the overflow check fires one level early, on the fifth element
OverflowsAtDepthFive(idx) == idx >= LenMorseTree \div 2

\* off-by-one overflow check
OverflowsOffByOne(idx) == idx > LenMorseTree

\* the overflow check of handleToneEnd
Overflows(idx) == idx >= LenMorseTree

\* a spacing dit that never takes the Farnsworth speed
SpacingDitOfEstimate(dit, cfg) == dit

SpacingDit(dit, cfg) ==
    IF cfg.FarnsworthWPM > 0 /\ cfg.FarnsworthWPM < cfg.InitialWPM
    THEN Norm(MillisecondsPerMinute, cfg.FarnsworthWPM * DitsPerWord)
    ELSE dit

IsWordSpace(durationMs, dit, cfg) ==
    RGt(RInt(durationMs), RMul(SpacingDit(dit, cfg), cfg.CharWordBoundary))

\* a character gap that starts at exactly one spacing dit
IsCharSpaceInclusive(durationMs, dit, cfg) ==
    RLe(RMul(SpacingDit(dit, cfg), RInt(IntraCharSpaceRatio)), RInt(durationMs))

IsCharSpace(durationMs, dit, cfg) ==
    RGt(RInt(durationMs), RMul(SpacingDit(dit, cfg), RInt(IntraCharSpaceRatio)))

\* lower bound check off by one: the slot right below the root's children is skipped
EmitCharacterSkipsFirst(idx, cb, dit, cfg, ev) ==
    IF idx > 2 /\ idx < LenMorseTree /\ MorseTree[idx] # NoChar /\ cb # "nil"
    THEN << [Character |-> MorseTree[idx], IsWordSpace |-> FALSE,
             CurrentWPM |-> CurrentWPMOf(dit, cfg), ev |-> ev, idx |-> idx] >>
    ELSE << >>

\* an output that reports the configured speed instead of the current one
EmitCharacterInitialWPM(idx, cb, dit, cfg, ev) ==
    IF idx > 0 /\ idx < LenMorseTree /\ MorseTree[idx] # NoChar /\ cb # "nil"
    THEN << [Character |-> MorseTree[idx], IsWordSpace |-> FALSE,
             CurrentWPM |-> cfg.InitialWPM, ev |-> ev, idx |-> idx] >>
    ELSE << >>

\* emitCharacter's callback invocation (empty when nothing is delivered)
EmitCharacter(idx, cb, dit, cfg, ev) ==
    IF idx > 0 /\ idx < LenMorseTree /\ MorseTree[idx] # NoChar /\ cb # "nil"
    THEN << [Character |-> MorseTree[idx], IsWordSpace |-> FALSE,
             CurrentWPM |-> CurrentWPMOf(dit, cfg), ev |-> ev, idx |-> idx] >>
    ELSE << >>

\* emitWordSpace's callback invocation
EmitWordSpace(idx, cb, dit, cfg, ev) ==
    IF cb # "nil"
    THEN << [Character |-> " ", IsWordSpace |-> TRUE,
             CurrentWPM |-> CurrentWPMOf(dit, cfg), ev |-> ev, idx |-> idx] >>
    ELSE << >>

\* ITU-exact durations at n WPM, in microseconds
ExactUs(n, dits) == (dits * 1200 * 1000) \div n

\* history record of a freshly constructed Decoder
NoOp == [op |-> "new", us |-> 0, dit |-> RZero, idx |-> 1, inChar |-> FALSE,
         cb |-> "nil", isDah |-> FALSE, moved |-> 1, elems |-> << >>, out |-> << >>,
         run |-> 0]

\* Decoder.handleToneEnd, reached from HandleToneEvent with ToneOn = false
HandleToneEnd(us) ==
    LET durationMs == Milliseconds(us)
        isDah == IsDah(durationMs, ditDurationMs, config)
        start == IF inChar THEN treeIndex ELSE 1
        moved == TreeStep(start, isDah)
    IN  /\ ditDurationMs' = IF config.AdaptiveTiming
                            THEN AdaptTiming(durationMs, isDah, ditDurationMs, config)
                            ELSE ditDurationMs
        /\ IF Overflows(moved)
           THEN treeIndex' = 1 /\ inChar' = FALSE /\ elems' = << >>
           ELSE /\ treeIndex' = moved
                /\ inChar' = TRUE
                /\ elems' = (IF inChar THEN elems ELSE << >>) \o <<us>>
        /\ last' = [op |-> "toneOff", us |-> us, dit |-> ditDurationMs,
                    idx |-> treeIndex, inChar |-> inChar, cb |-> callbackPtr, isDah |-> isDah,
                    moved |-> moved, elems |-> elems, out |-> << >>, run |-> run]
        /\ exactOnly' = (exactOnly /\ us \in {ExactUs(config.InitialWPM, 1),
                                               ExactUs(config.InitialWPM, 3)})
        /\ evCount' = evCount + 1
        /\ run' = run + 1
        /\ lastWPM' = 0
        /\ UNCHANGED <<config, callbackPtr, received>>

\* Decoder.handleSilenceEnd, reached from HandleToneEvent with ToneOn = true
HandleSilenceEnd(us) ==
    LET durationMs == Milliseconds(us)
        isWordSpace == IsWordSpace(durationMs, ditDurationMs, config)
        isCharSpace == IsCharSpace(durationMs, ditDurationMs, config)
        ends == inChar /\ (isCharSpace \/ isWordSpace)
        out == IF ends
               THEN EmitCharacter(treeIndex, callbackPtr, ditDurationMs, config, evCount + 1)
                    \o (IF isWordSpace
                        THEN EmitWordSpace(treeIndex, callbackPtr, ditDurationMs,
                                           config, evCount + 1)
                        ELSE << >>)
               ELSE << >>
    IN  /\ received' = received \o out
        /\ treeIndex' = IF ends THEN 1 ELSE treeIndex
        /\ inChar' = IF ends THEN FALSE ELSE inChar
        /\ elems' = IF ends THEN << >> ELSE elems
        /\ last' = [op |-> "toneOn", us |-> us, dit |-> ditDurationMs,
                    idx |-> treeIndex, inChar |-> inChar, cb |-> callbackPtr, isDah |-> FALSE,
                    moved |-> treeIndex, elems |-> elems, out |-> out, run |-> run]
        /\ exactOnly' = FALSE
        /\ evCount' = evCount + 1
        /\ run' = IF isCharSpace \/ isWordSpace THEN 0 ELSE run
        /\ lastWPM' = 0
        /\ UNCHANGED <<config, ditDurationMs, callbackPtr>>

\* the estimate is small enough for one more exact update
CanAdapt == config.AdaptiveTiming => ditDurationMs[2] <= MaxDitDen

ToneDurations == {500, ExactUs(config.InitialWPM, 1), ExactUs(config.InitialWPM, 3)}
GapDurations == {ExactUs(config.InitialWPM, 1), ExactUs(config.InitialWPM, 3),
                 ExactUs(config.InitialWPM, 7)}

ToneOff ==
    /\ pat = 0 /\ evCount < MaxEvents /\ CanAdapt
    /\ \E us \in ToneDurations : HandleToneEnd(us)
    /\ UNCHANGED <<feedVars, adaVars, detVars, refVars>>

ToneOn ==
    /\ pat = 0 /\ evCount < MaxEvents
    /\ \E us \in GapDurations : HandleSilenceEnd(us)
    /\ UNCHANGED <<feedVars, adaVars, detVars, refVars>>

\* a Reset that reseeds the estimate and the index but leaves in_char alone
ResetKeepsInChar ==
    /\ pat = 0
    /\ ditDurationMs' = InitialDit(config)
    /\ treeIndex' = 1
    /\ elems' = << >>
    /\ last' = [NoOp EXCEPT !.op = "reset", !.dit = ditDurationMs,
                             !.idx = treeIndex, !.inChar = inChar]
    /\ exactOnly' = FALSE
    /\ run' = 0
    /\ lastWPM' = 0
    /\ UNCHANGED <<config, inChar, callbackPtr, received, evCount, feedVars, adaVars,
                   detVars, refVars>>

\* the body of Decoder.Reset, between Lock and Unlock
ResetLocked ==
    /\ ditDurationMs' = InitialDit(config)
    /\ treeIndex' = 1
    /\ inChar' = FALSE
    /\ elems' = << >>
    /\ last' = [NoOp EXCEPT !.op = "reset", !.dit = ditDurationMs,
                             !.idx = treeIndex, !.inChar = inChar]
    /\ exactOnly' = FALSE
    /\ run' = 0
    /\ lastWPM' = 0
    /\ UNCHANGED <<config, callbackPtr, received, evCount>>

\* Decoder.Reset
Reset ==
    /\ pat = 0
    /\ ResetLocked
    /\ UNCHANGED <<feedVars, adaVars, detVars, refVars>>

\* Decoder.SetCallback
SetCallback ==
    /\ pat = 0
    /\ \E cb \in {"nil", "cb"} : callbackPtr' = cb
    /\ lastWPM' = 0
    /\ UNCHANGED <<config, ditDurationMs, treeIndex, inChar, received, elems,
                   evCount, last, exactOnly, run, feedVars, adaVars, detVars, refVars>>

\* Decoder.CurrentWPM
CurrentWPM ==
    /\ pat = 0
    /\ lastWPM' = CurrentWPMOf(ditDurationMs, config)
    /\ UNCHANGED <<config, ditDurationMs, treeIndex, inChar, callbackPtr,
                   received, elems, evCount, last, exactOnly, run, feedVars, adaVars,
                   detVars, refVars>>

SmoothingValues == {<<1, 2>>, <<1, 1>>}

\* (AdaptiveTiming, AdaptiveSmoothing) pairs; smoothing is unused when timing is fixed
TimingModes == {<<FALSE, <<1, 10>>>>} \cup {<<TRUE, s>> : s \in SmoothingValues}

DecoderConfigs ==
    { [InitialWPM |-> 15, AdaptiveTiming |-> m[1], AdaptiveSmoothing |-> m[2],
       DitDahBoundary |-> <<2, 1>>, CharWordBoundary |-> <<5, 1>>,
       FarnsworthWPM |-> 0] : m \in TimingModes }

----------------------------------------------------------------------------
(* Detector (internal/dsp/detector.go) *)

\* the AGC floor and the warmup gate of detector.go
MinPeak == <<1, 1000>>

NoEvent == [kind |-> "none"]

\* a validation that lets an overlap of 100 percent through
ValidDetectorConfigFullOverlap(cfg) ==
    /\ RLe(RZero, cfg.Threshold) /\ RLe(cfg.Threshold, ROne)
    /\ cfg.Hysteresis >= 0
    /\ cfg.OverlapPct >= 0 /\ cfg.OverlapPct <= 100
    /\ RLe(RZero, cfg.AGCDecay) /\ RLe(cfg.AGCDecay, ROne)
    /\ RLe(RZero, cfg.AGCAttack) /\ RLe(cfg.AGCAttack, ROne)
    /\ cfg.AGCWarmupBlocks >= 0

\* NewDetector's acceptance conditions (the Goertzel instance is present)
ValidDetectorConfig(cfg) ==
    /\ RLe(RZero, cfg.Threshold) /\ RLe(cfg.Threshold, ROne)
    /\ cfg.Hysteresis >= 0
    /\ cfg.OverlapPct >= 0 /\ cfg.OverlapPct < 100
    /\ RLe(RZero, cfg.AGCDecay) /\ RLe(cfg.AGCDecay, ROne)
    /\ RLe(RZero, cfg.AGCAttack) /\ RLe(cfg.AGCAttack, ROne)
    /\ cfg.AGCWarmupBlocks >= 0

\* the Detector fields NewDetector initialises; lastTransition 0 is the zero time
NewDetectorState ==
    [agcPeak |-> ROne, warmupCounter |-> 0, toneState |-> FALSE,
     pendingState |-> FALSE, hysteresisCount |-> 0, lastTransition |-> 0]

\* a Reset that leaves lastTransition alone
ResetDetectorKeepsTransition(d) ==
    [d EXCEPT !.agcPeak = MinPeak, !.toneState = FALSE, !.pendingState = FALSE,
              !.hysteresisCount = 0]

\* a Reset that leaves the confirmed tone state alone
ResetDetectorKeepsTone(d) ==
    [d EXCEPT !.agcPeak = MinPeak, !.pendingState = FALSE,
              !.hysteresisCount = 0, !.lastTransition = 0]

\* Detector.Reset
ResetDetector(d) ==
    [d EXCEPT !.agcPeak = MinPeak, !.toneState = FALSE, !.pendingState = FALSE,
              !.hysteresisCount = 0, !.lastTransition = 0]

\* an applyAGC without the floor under the peak
ApplyAGCUnfloored(d, cfg, magnitude) ==
    LET peak == IF RGt(magnitude, d.agcPeak)
                THEN RAdd(d.agcPeak,
                          RMul(cfg.AGCAttack, RSub(magnitude, d.agcPeak)))
                ELSE RMul(d.agcPeak, cfg.AGCDecay)
        normalized == IF peak[1] = 0 THEN ROne ELSE RDiv(magnitude, peak)
    IN  [det |-> [d EXCEPT !.agcPeak = peak],
         magnitude |-> IF RGt(normalized, ROne) THEN ROne ELSE normalized]

\* applyAGC: the updated peak and the normalised magnitude
ApplyAGC(d, cfg, magnitude) ==
    LET tracked == IF RGt(magnitude, d.agcPeak)
                   THEN RAdd(d.agcPeak,
                             RMul(cfg.AGCAttack, RSub(magnitude, d.agcPeak)))
                   ELSE RMul(d.agcPeak, cfg.AGCDecay)
        peak == IF RGt(MinPeak, tracked) THEN MinPeak ELSE tracked
        normalized == RDiv(magnitude, peak)
    IN  [det |-> [d EXCEPT !.agcPeak = peak],
         magnitude |-> IF RGt(normalized, ROne) THEN ROne ELSE normalized]

\* the agreeing-block branch forgets to clear the counter
UpdateHysteresisKeepsCount(d, cfg, tonePresent, magnitude, t) ==
    IF tonePresent = d.toneState
    THEN [det |-> [d EXCEPT !.pendingState = tonePresent], event |-> NoEvent]
    ELSE LET count == d.hysteresisCount + 1
         IN  IF count >= cfg.Hysteresis
             THEN [det |-> [d EXCEPT !.pendingState = tonePresent,
                                     !.toneState = tonePresent,
                                     !.lastTransition = t,
                                     !.hysteresisCount = 0],
                   event |-> [kind |-> "tone", ToneOn |-> tonePresent,
                              Timestamp |-> t,
                              Duration |-> IF d.lastTransition # 0
                                           THEN t - d.lastTransition ELSE 0,
                              Magnitude |-> magnitude]]
             ELSE [det |-> [d EXCEPT !.pendingState = tonePresent,
                                     !.hysteresisCount = count],
                   event |-> NoEvent]

\* the Duration is taken from the new transition back to the clock
UpdateHysteresisReversedDuration(d, cfg, tonePresent, magnitude, t) ==
    IF tonePresent = d.toneState
    THEN [det |-> [d EXCEPT !.pendingState = d.toneState, !.hysteresisCount = 0],
          event |-> NoEvent]
    ELSE LET count == IF tonePresent = d.pendingState
                      THEN d.hysteresisCount + 1 ELSE 1
         IN  IF count >= cfg.Hysteresis
             THEN [det |-> [d EXCEPT !.pendingState = tonePresent,
                                     !.toneState = tonePresent,
                                     !.lastTransition = t,
                                     !.hysteresisCount = 0],
                   event |-> [kind |-> "tone", ToneOn |-> tonePresent,
                              Timestamp |-> t,
                              Duration |-> IF d.lastTransition # 0
                                           THEN d.lastTransition - t ELSE 0,
                              Magnitude |-> magnitude]]
             ELSE [det |-> [d EXCEPT !.pendingState = tonePresent,
                                     !.hysteresisCount = count],
                   event |-> NoEvent]

\* a confirmed transition is not remembered in lastTransition
UpdateHysteresisForgetsTransition(d, cfg, tonePresent, magnitude, t) ==
    IF tonePresent = d.toneState
    THEN [det |-> [d EXCEPT !.pendingState = d.toneState, !.hysteresisCount = 0],
          event |-> NoEvent]
    ELSE LET count == IF tonePresent = d.pendingState
                      THEN d.hysteresisCount + 1 ELSE 1
         IN  IF count >= cfg.Hysteresis
             THEN [det |-> [d EXCEPT !.pendingState = tonePresent,
                                     !.toneState = tonePresent,
                                     !.hysteresisCount = 0],
                   event |-> [kind |-> "tone", ToneOn |-> tonePresent,
                              Timestamp |-> t,
                              Duration |-> IF d.lastTransition # 0
                                           THEN t - d.lastTransition ELSE 0,
                              Magnitude |-> magnitude]]
             ELSE [det |-> [d EXCEPT !.pendingState = tonePresent,
                                     !.hysteresisCount = count],
                   event |-> NoEvent]

\* updateHysteresis: the new state and the ToneEvent handed to emitEvent
UpdateHysteresis(d, cfg, tonePresent, magnitude, t) ==
    IF tonePresent = d.toneState
    THEN [det |-> [d EXCEPT !.pendingState = d.toneState, !.hysteresisCount = 0],
          event |-> NoEvent]
    ELSE LET count == IF tonePresent = d.pendingState
                      THEN d.hysteresisCount + 1 ELSE 1
         IN  IF count >= cfg.Hysteresis
             THEN [det |-> [d EXCEPT !.pendingState = tonePresent,
                                     !.toneState = tonePresent,
                                     !.lastTransition = t,
                                     !.hysteresisCount = 0],
                   event |-> [kind |-> "tone", ToneOn |-> tonePresent,
                              Timestamp |-> t,
                              Duration |-> IF d.lastTransition # 0
                                           THEN t - d.lastTransition ELSE 0,
                              Magnitude |-> magnitude]]
             ELSE [det |-> [d EXCEPT !.pendingState = tonePresent,
                                     !.hysteresisCount = count],
                   event |-> NoEvent]

\* warmup ends one block early
WarmingUpEndsEarly(d, cfg) == d.warmupCounter + 1 < cfg.AGCWarmupBlocks

\* the warmup test of processBlock
WarmingUp(d, cfg) == d.warmupCounter < cfg.AGCWarmupBlocks

\* the warmup branch of processBlock
WarmupBlock(d, cfg, magnitude) ==
    LET counter == d.warmupCounter + 1
        peak == IF cfg.AGCEnabled /\ RGt(magnitude, MinPeak)
                THEN IF RGt(magnitude, d.agcPeak) THEN magnitude
                     ELSE IF counter = 1 THEN magnitude
                     ELSE d.agcPeak
                ELSE d.agcPeak
    IN  [d EXCEPT !.warmupCounter = counter, !.agcPeak = peak]

\* processBlock on the magnitude the Goertzel estimator returned for the block
ProcessBlockOf(d, cfg, magnitude, t) ==
    IF WarmingUp(d, cfg)
    THEN [det |-> WarmupBlock(d, cfg, magnitude), event |-> NoEvent,
          warmup |-> TRUE, tonePresent |-> FALSE]
    ELSE LET agc == IF cfg.AGCEnabled THEN ApplyAGC(d, cfg, magnitude)
                    ELSE [det |-> d, magnitude |-> magnitude]
             tonePresent == RGt(agc.magnitude, cfg.Threshold)
             res == UpdateHysteresis(agc.det, cfg, tonePresent, agc.magnitude, t)
         IN  [det |-> res.det, event |-> res.event,
              warmup |-> FALSE, tonePresent |-> tonePresent]

\* block magnitudes: silence, below the warmup gate, weak, loud
Magnitudes == {<<0, 1>>, <<1, 2000>>, <<1, 4>>, <<1, 1>>}

\* the peak is small enough for one more exact update
CanTrack(d) == dcfg.AGCEnabled => d.agcPeak[2] <= MaxPeakDen

Append1(h, e) ==
    IF Len(h) < MaxHist THEN Append(h, e) ELSE Append(Tail(h), e)

\* Process, one complete block: the clock advances, then processBlock runs
ProcessBlock ==
    /\ blocks < MaxBlocks /\ CanTrack(det)
    /\ \E magnitude \in Magnitudes, dt \in {0, 1} :
          LET res == ProcessBlockOf(det, dcfg, magnitude, now + dt)
          IN  /\ now' = now + dt
              /\ det' = res.det
              /\ emitted' = res.event
              /\ hist' = IF res.warmup THEN hist
                         ELSE Append1(hist, [present |-> res.tonePresent,
                                             before |-> det.toneState])
    /\ blocks' = blocks + 1
    /\ UNCHANGED <<dcfg, procVars, decVars, feedVars, adaVars, refVars>>

\* Detector.Reset
DetReset ==
    /\ det' = ResetDetector(det)
    /\ emitted' = NoEvent
    /\ hist' = << >>
    /\ overlapBuffer' = << >>
    /\ UNCHANGED <<dcfg, now, blocks, geomVars, cbVars, decVars, feedVars, adaVars, refVars>>

\* AGC off, or on with an (attack, decay) pair
AGCModes == {<<FALSE, <<1, 2>>, <<1, 2>>>>}
            \cup {<<TRUE, a, d>> : a \in {<<1, 2>>, <<1, 1>>}, d \in {<<1, 2>>, <<1, 1>>}}

DetectorConfigs ==
    { [Threshold |-> <<1, 2>>, Hysteresis |-> h, AGCEnabled |-> m[1],
       AGCAttack |-> m[2], AGCDecay |-> m[3], AGCWarmupBlocks |-> w,
       OverlapPct |-> 0] :
        h \in {0, 1, 2}, w \in {0, 2}, m \in AGCModes }

\* the empty callback slot, and the callback a caller may register
NilCallback == <<0, 0>>
Callbacks == {<<1, 1>>}

\* the block size of the Goertzel estimator handed to NewDetector
DefaultBlockSize == 2

\* NewDetector
NewDetector(cfg, goertzelBlockSize) ==
    /\ ValidDetectorConfig(cfg)
    /\ goertzelBlockSize > 0
    /\ dcfg = cfg
    /\ blockSize = goertzelBlockSize
    /\ overlapSize = (goertzelBlockSize * cfg.OverlapPct) \div 100
    /\ hopSize = goertzelBlockSize - (goertzelBlockSize * cfg.OverlapPct) \div 100
    /\ overlapBuffer = << >>
    /\ detCallbackPtr = NilCallback
    /\ pc = "idle"
    /\ loaded = NilCallback
    /\ log = << >>
    /\ delivered = << >>
    /\ pushed = 0
    /\ stored = {}
    /\ det = NewDetectorState
    /\ now = 1
    /\ blocks = 0
    /\ emitted = NoEvent
    /\ hist = << >>
    /\ fresh = NewDetectorState
    /\ freshEmitted = NoEvent
    /\ resetDone = FALSE

DefaultDetectorConfig ==
    [Threshold |-> <<1, 2>>, Hysteresis |-> 1, AGCEnabled |-> FALSE,
     AGCAttack |-> <<1, 2>>, AGCDecay |-> <<1, 2>>, AGCWarmupBlocks |-> 0,
     OverlapPct |-> 0]

\* defaults of NewAdaptiveDecoder
MinPatternConfidence == <<7, 10>>
MinMatchesForAdjustment == 3
AdaptiveAdjustmentRate == <<1, 10>>

\* the goroutines that call into the Decoder and the pattern layer
Goroutines == {1, 2}

\* a goroutine outside every call
Idle == [at |-> "idle", op |-> "none", elem |-> 0]

NoRecord == [op |-> "new", readsDit |-> FALSE, matched |-> 0, adjusted |-> FALSE,
             before |-> RZero, suggested |-> RZero, otherDit |-> RZero]

\* NewAdaptiveDecoder wrapping a Decoder whose InterCharBoundary is boundary
NewAdaptiveDecoder(acfg, boundary) ==
    /\ aconfig = [acfg EXCEPT
                    !.MinConfidence =
                        IF RLe(@, RZero) THEN MinPatternConfidence ELSE @,
                    !.AdjustmentRate =
                        IF RLe(@, RZero) THEN AdaptiveAdjustmentRate ELSE @,
                    !.MinMatchesForAdjust =
                        IF @ <= 0 THEN MinMatchesForAdjustment ELSE @]
    /\ elementBuffer = << >>
    /\ patternMatches = << >>
    /\ correctedCallback = "nil"
    /\ corrected = << >>
    /\ interCharBoundary = boundary
    /\ recorded = 0
    /\ lastRecord = NoRecord
    /\ amu = 0
    /\ thr = [t \in Goroutines |-> Idle]

DefaultAdaptiveConfig ==
    [Enabled |-> TRUE, MinConfidence |-> RZero, AdjustmentRate |-> RZero,
     MinMatchesForAdjust |-> 0]

DefaultInterCharBoundary == <<2, 1>>

\* the threads that use the Capture: two callers of its methods, the
\* goroutine Start leaves waiting for cancellation, and the audio thread
\* NewGoertzel has not been called: no estimator (a sequence of at most one)
\* and no error
NotConstructed == [estimator |-> << >>, err |-> "none"]

\* the GoertzelConfig behind DefaultBlockSize, before NewGoertzel
NoGoertzel ==
    /\ gconfig = [BlockSize |-> 2, SampleRate |-> <<8000, 1>>,
                  TargetFrequency |-> <<600, 1>>]
    /\ goertzel = NotConstructed

CaptureCallers == {"c1", "c2"}
CaptureThreads == CaptureCallers \cup {"handler", "audio"}

\* a thread outside every Capture method
Outside == [at |-> "idle", dev |-> 0, buf |-> 0]

NoSend == [buf |-> 0, before |-> << >>, after |-> << >>, outcome |-> "none"]

\* no cancellation handler has stopped a device
NoCancelStop == [by |-> 0, dev |-> 0, uncancelled |-> FALSE]

\* audio.New
NewCapture ==
    /\ capture = [running |-> FALSE, closed |-> FALSE, ctx |-> "nil", device |-> 0,
                  mu |-> "free", once |-> FALSE]
    /\ samples = [queue |-> << >>, closed |-> FALSE]
    /\ devs = << >>
    /\ cth = [t \in CaptureThreads |-> Outside]
    /\ pending = 0
    /\ chist = [closes |-> 0, escaped |-> 0, recovered |-> 0, frames |-> 0,
                received |-> 0, calls |-> 0, closeReturned |-> FALSE,
                lateInit |-> FALSE, last |-> NoSend,
                waiting |-> {}, cancelStop |-> NoCancelStop]

DefaultDecoderConfig ==
    [InitialWPM |-> 15, AdaptiveTiming |-> FALSE, AdaptiveSmoothing |-> <<1, 10>>,
     DitDahBoundary |-> <<2, 1>>, CharWordBoundary |-> <<5, 1>>,
     FarnsworthWPM |-> 0]

\* NewDecoder
NewDecoder(cfg) ==
    /\ ValidDecoderConfig(cfg)
    /\ config = cfg
    /\ ditDurationMs = InitialDit(cfg)
    /\ treeIndex = 1
    /\ inChar = FALSE
    /\ callbackPtr = "nil"
    /\ received = << >>
    /\ evCount = 0
    /\ elems = << >>
    /\ last = NoOp
    /\ lastWPM = 0
    /\ exactOnly = TRUE
    /\ run = 0
    /\ mu = 0

Init ==
    /\ \E cfg \in DecoderConfigs : NewDecoder(cfg)
    /\ NewAdaptiveDecoder(DefaultAdaptiveConfig, DefaultInterCharBoundary)
    /\ pat = 0 /\ pos = 0
    /\ NewDetector(DefaultDetectorConfig, DefaultBlockSize)
    /\ NewCapture
    /\ NoGoertzel

Next == ToneOff \/ ToneOn \/ Reset \/ SetCallback \/ CurrentWPM

Spec == Init /\ [][Next]_vars

----------------------------------------------------------------------------
(* Properties of the Decoder, checked under Spec *)

\* C1: in every reachable Decoder state 1 <= tree_index < 64, and a tone-off
\* step whose tree move would reach an index >= 64 leaves tree_index = 1,
\* in_char = false.
TreeIndexInRange ==
    /\ 1 <= treeIndex /\ treeIndex < 64
    /\ (last.op = "toneOff" /\ last.moved >= 64) => (treeIndex = 1 /\ ~inChar)

\* a sixth consecutive element has overflowed the tree
TreeOverflowHappened ==
    /\ last.op = "toneOff" /\ last.moved >= 64
    /\ last.inChar /\ last.idx >= 32

IsCharOutput(o) == ~o.IsWordSpace

LastDurationMs == RInt(Milliseconds(last.us))

\* the exponential moving average of C5 for the last tone-off event
EMAOfLast ==
    LET s == config.AdaptiveSmoothing
        d == LastDurationMs
        o == IF RLe(d, RMul(last.dit, config.DitDahBoundary))
             THEN d ELSE RDiv(d, <<3, 1>>)
    IN  RAdd(RMul(RSub(ROne, s), last.dit), RMul(s, o))

\* C5: with adaptive timing on, a tone-off event of duration d found with dit
\* estimate D leaves dit_duration_ms = (1 - s)*D + s*o (o = d for a dit, d/3
\* for a dah); with adaptive timing off the estimate is unchanged.
AdaptTimingIsEMA ==
    last.op = "toneOff" =>
        IF config.AdaptiveTiming
        THEN ditDurationMs = EMAOfLast
        ELSE ditDurationMs = last.dit

RECURSIVE WalkFrom(_, _)
\* i := 2i for each dit, i := 2i + 1 for each dah, over tone durations ds
WalkFrom(i, ds) ==
    IF ds = << >> THEN i
    ELSE LET dah == RGt(RInt(Milliseconds(Head(ds))),
                        RMul(InitialDit(config), config.DitDahBoundary))
         IN  WalkFrom(IF dah THEN 2 * i + 1 ELSE 2 * i, Tail(ds))

CharactersOf(out) == SelectSeq(out, IsCharOutput)

\* the last event was a tone-on whose gap exceeds one spacing dit, met while a
\* character was under construction
CharacterGapEnded ==
    /\ last.op = "toneOn" /\ last.inChar
    /\ IsCharSpace(Milliseconds(last.us), last.dit, config)

LastGapAboveSpacingDit ==
    RGt(RInt(last.us \div 1000), SpacingDit(last.dit, config))

\* C32: a tone-on event met with in_char false, or with a gap that does not
\* exceed one spacing dit, leaves tree_index, in_char and dit_duration_ms as
\* they were and invokes no callback; no tone-on event changes dit_duration_ms
ShortGapChangesNothing ==
    last.op = "toneOn" =>
        /\ ditDurationMs = last.dit
        /\ (~last.inChar \/ ~LastGapAboveSpacingDit) =>
              /\ treeIndex = last.idx
              /\ inChar = last.inChar
              /\ last.out = << >>

\* with a callback registered, a gap of no more than one spacing dit arrived
\* inside a character, and the character is still under construction
ElementGapInsideCharacter ==
    /\ last.op = "toneOn" /\ last.inChar /\ last.cb # "nil"
    /\ ~LastGapAboveSpacingDit
    /\ inChar /\ treeIndex > 1

\* C8: dit_duration_ms > 0 in every reachable Decoder state.
DitDurationPositive == ditDurationMs[1] > 0

\* C9: with adaptive timing on, after any number of tone-off events with
\* durations exact for initial_wpm = N, CurrentWPM stays within N - 1 .. N + 1.
WPMWithinOneOfInitial ==
    (config.AdaptiveTiming /\ exactOnly) =>
        /\ CurrentWPMOf(ditDurationMs, config) >= config.InitialWPM - 1
        /\ CurrentWPMOf(ditDurationMs, config) <= config.InitialWPM + 1

----------------------------------------------------------------------------
(* Feeding the pattern dictionary with ITU-exact timings *)

\* CommonPatterns of internal/cw/adaptive.go; Breaks are 0-based element indices
CommonPatterns == <<
    [Text |-> <<"C", "Q">>, Elements |-> <<TRUE, FALSE, TRUE, FALSE, TRUE, TRUE, FALSE, TRUE>>,
     Breaks |-> {3}, Priority |-> 10],
    [Text |-> <<"D", "E">>, Elements |-> <<TRUE, FALSE, FALSE, FALSE>>,
     Breaks |-> {2}, Priority |-> 10],
    [Text |-> <<"7", "3">>, Elements |-> <<TRUE, TRUE, FALSE, FALSE, FALSE, FALSE, FALSE, FALSE, TRUE, TRUE>>,
     Breaks |-> {4}, Priority |-> 9],
    [Text |-> <<"5", "N", "N">>, Elements |-> <<FALSE, FALSE, FALSE, FALSE, FALSE, TRUE, FALSE, TRUE, FALSE>>,
     Breaks |-> {4, 6}, Priority |-> 9],
    [Text |-> <<"5", "9", "9">>, Elements |-> <<FALSE, FALSE, FALSE, FALSE, FALSE, TRUE, TRUE, TRUE, TRUE, FALSE, TRUE, TRUE, TRUE, TRUE, FALSE>>,
     Breaks |-> {4, 9}, Priority |-> 8],
    [Text |-> <<"Q", "T", "H">>, Elements |-> <<TRUE, TRUE, FALSE, TRUE, TRUE, FALSE, FALSE, FALSE, FALSE>>,
     Breaks |-> {3, 4}, Priority |-> 7],
    [Text |-> <<"Q", "R", "Z">>, Elements |-> <<TRUE, TRUE, FALSE, TRUE, FALSE, TRUE, FALSE, TRUE, TRUE, FALSE, FALSE>>,
     Breaks |-> {3, 6}, Priority |-> 7],
    [Text |-> <<"Q", "S", "O">>, Elements |-> <<TRUE, TRUE, FALSE, TRUE, FALSE, FALSE, FALSE, TRUE, TRUE, TRUE>>,
     Breaks |-> {3, 6}, Priority |-> 7],
    [Text |-> <<"Q", "S", "L">>, Elements |-> <<TRUE, TRUE, FALSE, TRUE, FALSE, FALSE, FALSE, FALSE, TRUE, FALSE, FALSE>>,
     Breaks |-> {3, 6}, Priority |-> 7],
    [Text |-> <<"T", "U">>, Elements |-> <<TRUE, FALSE, FALSE, TRUE>>,
     Breaks |-> {0}, Priority |-> 8],
    [Text |-> <<"G", "M">>, Elements |-> <<TRUE, TRUE, FALSE, TRUE, TRUE>>,
     Breaks |-> {2}, Priority |-> 7],
    [Text |-> <<"G", "A">>, Elements |-> <<TRUE, TRUE, FALSE, FALSE, TRUE>>,
     Breaks |-> {2}, Priority |-> 7],
    [Text |-> <<"G", "E">>, Elements |-> <<TRUE, TRUE, FALSE, FALSE>>,
     Breaks |-> {2}, Priority |-> 7],
    [Text |-> <<"U", "R">>, Elements |-> <<FALSE, FALSE, TRUE, FALSE, TRUE, FALSE>>,
     Breaks |-> {2}, Priority |-> 6],
    [Text |-> <<"F", "B">>, Elements |-> <<FALSE, FALSE, TRUE, FALSE, TRUE, FALSE, FALSE, FALSE>>,
     Breaks |-> {3}, Priority |-> 6],
    [Text |-> <<"E", "S">>, Elements |-> <<FALSE, FALSE, FALSE, FALSE>>,
     Breaks |-> {0}, Priority |-> 6],
    [Text |-> <<"H", "R">>, Elements |-> <<FALSE, FALSE, FALSE, FALSE, FALSE, TRUE, FALSE>>,
     Breaks |-> {3}, Priority |-> 5] >>

\* element k (1-based) of the fed pattern is followed by a character break
BreakAfter(p, k) == (k - 1) \in CommonPatterns[p].Breaks

FeedLength(p) == 2 * Len(CommonPatterns[p].Elements) + 1

\* the silence before feed event number n (n even; n = 0 opens the feed):
\* 1 dit inside a character, 3 dits at a break, 7 dits after the last element
FeedGapUs(p, n) ==
    LET k == n \div 2
        w == config.InitialWPM
    IN  IF k = 0 \/ k = Len(CommonPatterns[p].Elements) THEN ExactUs(w, 7)
        ELSE IF BreakAfter(p, k) THEN ExactUs(w, 3)
        ELSE ExactUs(w, 1)

\* the tone of feed event number n (n odd): 1 dit or 3 dits
FeedToneUs(p, n) ==
    IF CommonPatterns[p].Elements[(n + 1) \div 2]
    THEN ExactUs(config.InitialWPM, 3)
    ELSE ExactUs(config.InitialWPM, 1)

\* the sink registers its callback before the feed starts
FeedSetCallback ==
    /\ pat > 0 /\ pos = 0 /\ callbackPtr = "nil"
    /\ callbackPtr' = "cb"
    /\ UNCHANGED <<config, ditDurationMs, treeIndex, inChar, received, elems,
                   evCount, last, lastWPM, exactOnly, run, feedVars, adaVars, detVars,
                   refVars>>

FeedToneOn ==
    /\ pat > 0 /\ callbackPtr = "cb"
    /\ pos < FeedLength(pat) /\ pos % 2 = 0
    /\ HandleSilenceEnd(FeedGapUs(pat, pos))
    /\ pos' = pos + 1
    /\ UNCHANGED <<pat, adaVars, detVars, refVars>>

FeedToneOff ==
    /\ pat > 0 /\ callbackPtr = "cb"
    /\ pos < FeedLength(pat) /\ pos % 2 = 1
    /\ CanAdapt
    /\ HandleToneEnd(FeedToneUs(pat, pos))
    /\ pos' = pos + 1
    /\ UNCHANGED <<pat, adaVars, detVars, refVars>>

FeedWPMs == 5..60
FeedTimingModes ==
    {<<FALSE, <<1, 10>>>>, <<TRUE, <<0, 1>>>>, <<TRUE, <<1, 10>>>>, <<TRUE, <<1, 1>>>>}
FeedDitDahBoundaries == {<<2, 1>>, <<2999, 1000>>}
FeedCharWordBoundaries == {<<3, 1>>, <<5, 1>>}

FeedConfigs ==
    { [InitialWPM |-> w, AdaptiveTiming |-> m[1], AdaptiveSmoothing |-> m[2],
       DitDahBoundary |-> b, CharWordBoundary |-> c, FarnsworthWPM |-> 0] :
        w \in FeedWPMs, m \in FeedTimingModes,
        b \in FeedDitDahBoundaries, c \in FeedCharWordBoundaries }

InitFeed ==
    /\ \E cfg \in FeedConfigs : NewDecoder(cfg)
    /\ NewAdaptiveDecoder(DefaultAdaptiveConfig, DefaultInterCharBoundary)
    /\ pat \in 1..Len(CommonPatterns) /\ pos = 0
    /\ NewDetector(DefaultDetectorConfig, DefaultBlockSize)
    /\ NewCapture
    /\ NoGoertzel

NextFeed == FeedSetCallback \/ FeedToneOn \/ FeedToneOff

SpecFeed == InitFeed /\ [][NextFeed]_vars

OutputText(out) == [i \in 1..Len(out) |-> out[i].Character]

\* C7: feeding a dictionary entry with ITU-exact timings at any initial_wpm in
\* 5..60 delivers exactly the characters of the entry's text in order,
\* followed by one word space.
DictionaryDecodesExactly ==
    (pat > 0 /\ pos = FeedLength(pat)) =>
        /\ OutputText(received) = CommonPatterns[pat].Text \o <<" ">>
        /\ \A i \in 1..Len(received) :
              received[i].IsWordSpace <=> i = Len(received)

----------------------------------------------------------------------------
(* The Detector on its own *)

InitDet ==
    /\ \E cfg \in DetectorConfigs : NewDetector(cfg, DefaultBlockSize)
    /\ NewCapture
    /\ NoGoertzel
    /\ NewDecoder(DefaultDecoderConfig)
    /\ NewAdaptiveDecoder(DefaultAdaptiveConfig, DefaultInterCharBoundary)
    /\ pat = 0 /\ pos = 0

NextDet == ProcessBlock \/ DetReset

SpecDet == InitDet /\ [][NextDet]_vars

RECURSIVE RunLength(_)
\* length of the unbroken run of blocks that ends hist, each disagreeing with
\* one and the same confirmed state
RunLength(h) ==
    IF h = << >> THEN 0
    ELSE LET e == h[Len(h)]
             front == SubSeq(h, 1, Len(h) - 1)
         IN  IF e.present = e.before THEN 0
             ELSE IF front # << >> /\ front[Len(front)].before = e.before
                  THEN 1 + RunLength(front)
                  ELSE 1

\* C2: with hysteresis_blocks = H >= 1 the confirmed state changes, and a
\* ToneEvent is emitted, only on a post-warmup block that is the H-th of an
\* unbroken run of blocks whose tone_present differs from the confirmed state.
HysteresisDiscipline ==
    dcfg.Hysteresis >= 1 =>
        /\ emitted # NoEvent =>
              /\ RunLength(hist) = dcfg.Hysteresis
              /\ det.warmupCounter >= dcfg.AGCWarmupBlocks
              /\ emitted.ToneOn = det.toneState
              /\ hist[Len(hist)].before # det.toneState
        /\ (hist # << >> /\ emitted = NoEvent) =>
              /\ hist[Len(hist)].before = det.toneState
              /\ RunLength(hist) < dcfg.Hysteresis

\* a transition was confirmed by a run of two blocks right after a run of one
\* block had been interrupted
InterruptedRunThenTransition ==
    /\ dcfg.Hysteresis = 2 /\ emitted # NoEvent
    /\ Len(hist) = 4
    /\ hist[1].present # hist[1].before
    /\ hist[2].present = hist[2].before

\* C3: with agc_warmup_blocks = W the first W blocks processed after
\* construction emit no ToneEvent and leave the confirmed state, the pending
\* state and the hysteresis counter unchanged.
WarmupSuppressesDetection ==
    blocks <= dcfg.AGCWarmupBlocks =>
        /\ emitted = NoEvent
        /\ det.toneState = FALSE
        /\ det.pendingState = FALSE
        /\ det.hysteresisCount = 0

\* the last warmup block was processed, and warmup calibrated the peak to a
\* level at which the warmup blocks would have counted as tone
WarmupCompletedWithTone ==
    /\ dcfg.AGCWarmupBlocks > 0 /\ blocks = dcfg.AGCWarmupBlocks
    /\ det.warmupCounter = dcfg.AGCWarmupBlocks
    /\ dcfg.AGCEnabled /\ det.agcPeak = <<1, 4>>

----------------------------------------------------------------------------
(* A Detector that was reset, beside a newly constructed one *)

\* Process, one complete block, handed to the Detector and, once a Reset has
\* happened, to the reference Detector as well
PairProcessBlock ==
    /\ blocks < MaxBlocks /\ CanTrack(det) /\ CanTrack(fresh)
    /\ \E magnitude \in Magnitudes, dt \in {0, 1} :
          LET res == ProcessBlockOf(det, dcfg, magnitude, now + dt)
              ref == ProcessBlockOf(fresh, dcfg, magnitude, now + dt)
          IN  /\ now' = now + dt
              /\ det' = res.det
              /\ emitted' = res.event
              /\ fresh' = IF resetDone THEN ref.det ELSE fresh
              /\ freshEmitted' = IF resetDone THEN ref.event ELSE NoEvent
    /\ blocks' = blocks + 1
    /\ UNCHANGED <<dcfg, hist, procVars, resetDone, decVars, feedVars, adaVars>>

\* Detector.Reset, while the reference Detector is constructed anew
PairReset ==
    /\ det' = ResetDetector(det)
    /\ emitted' = NoEvent
    /\ fresh' = NewDetectorState
    /\ freshEmitted' = NoEvent
    /\ resetDone' = TRUE
    /\ overlapBuffer' = << >>
    /\ UNCHANGED <<dcfg, now, blocks, hist, geomVars, cbVars, decVars, feedVars, adaVars>>

NextResetEq == PairProcessBlock \/ PairReset

SpecResetEq == InitDet /\ [][NextResetEq]_vars

\* what a callback observes of a block: no event, tone on, or tone off
Observed(e) == IF e = NoEvent THEN "none" ELSE IF e.ToneOn THEN "on" ELSE "off"

\* C10: after Reset a Detector is observationally equivalent to a newly
\* constructed one with the same configuration: ToneState and AGCPeak agree,
\* and both emit ToneEvents with the same ToneOn at the same blocks.
ResetEquivalentToNew ==
    resetDone =>
        /\ det.toneState = fresh.toneState
        /\ det.agcPeak = fresh.agcPeak
        /\ Observed(emitted) = Observed(freshEmitted)

----------------------------------------------------------------------------
(* Decoder.Reset, checked under Spec *)

\* C12: Decoder.Reset leaves dit_duration_ms = 60000 / (initial_wpm * 50),
\* tree_index = 1 and in_char = false, the values NewDecoder produces for the
\* same configuration; it leaves the configuration and the registered callback
\* unchanged, and a second Reset changes nothing.
ResetRestoresNewDecoder ==
    /\ [](last.op = "reset" =>
            /\ ditDurationMs = Norm(60000, config.InitialWPM * 50)
            /\ treeIndex = 1
            /\ inChar = FALSE)
    /\ [][(last'.op = "reset" /\ last' # last) =>
            (config' = config /\ callbackPtr' = callbackPtr
             /\ received' = received)]_vars
    /\ [][(last.op = "reset" /\ last'.op = "reset") =>
            (ditDurationMs' = ditDurationMs /\ treeIndex' = treeIndex
             /\ inChar' = inChar /\ config' = config)]_vars

\* a Reset met an adapted estimate and a character under construction, with a
\* callback registered
ResetAfterAdaptedCharacter ==
    /\ last.op = "reset" /\ last.inChar /\ last.idx > 1
    /\ last.dit # ditDurationMs
    /\ callbackPtr = "cb"

----------------------------------------------------------------------------
(* Runs of elements longer than any Morse character *)

MaxRunEvents == 8

\* HandleToneEvent with ToneOn = false: one more element, a dit or a dah
RunToneOff ==
    /\ pat = 0 /\ evCount < MaxRunEvents /\ CanAdapt
    /\ \E us \in {ExactUs(config.InitialWPM, 1), ExactUs(config.InitialWPM, 3)} :
          HandleToneEnd(us)
    /\ UNCHANGED <<feedVars, adaVars, detVars, refVars>>

\* HandleToneEvent with ToneOn = true: an intra-character or a character gap
RunToneOn ==
    /\ pat = 0 /\ evCount < MaxRunEvents
    /\ \E us \in {ExactUs(config.InitialWPM, 1), ExactUs(config.InitialWPM, 3)} :
          HandleSilenceEnd(us)
    /\ UNCHANGED <<feedVars, adaVars, detVars, refVars>>

InitRun == Init

NextRun == RunToneOff \/ RunToneOn \/ SetCallback

SpecRun == InitRun /\ [][NextRun]_vars

\* the last event was a tone-on with a character gap that closed a run of at
\* least six tone-off events
LongRunClosed ==
    /\ last.op = "toneOn" /\ last.run >= 6
    /\ IsCharSpace(Milliseconds(last.us), last.dit, config)

----------------------------------------------------------------------------
(* Process step by step, with SetCallback called from another thread *)

MaxProcessBlocks == 5
MaxChunk == 3
MaxResets == 1

\* a store that publishes the two words of the pointer separately
StorePointerTorn(old, new) == <<new[1], old[2]>>

\* atomic.Pointer.Store: the whole pointer is published at once
StorePointer(old, new) == new

\* Detector.SetCallback, atomic with respect to Process
DetSetCallback ==
    /\ \E cb \in Callbacks \cup {NilCallback} :
          /\ detCallbackPtr' = StorePointer(detCallbackPtr, cb)
          /\ stored' = IF cb = NilCallback THEN stored ELSE stored \cup {cb}
    /\ UNCHANGED <<dcfg, det, now, blocks, emitted, hist, overlapBuffer, geomVars,
                   pc, loaded, log, delivered, pushed, decVars, feedVars, adaVars, refVars>>

\* a pass of the loop that keeps no overlap
SlideClears(buffer, hop) == << >>

\* the slide that ends one pass of the loop in Process
Slide(buffer, hop) ==
    IF hop > 0 /\ hop < Len(buffer)
    THEN SubSeq(buffer, hop + 1, Len(buffer))
    ELSE << >>

\* the loop test of Process
LoopOrReturn(buffer) == IF Len(buffer) >= blockSize THEN "loop" ELSE "idle"

Resets == Len(SelectSeq(log, LAMBDA e : e.kind = "reset"))

\* Process: the new samples are appended to the carry-over buffer
ProcessPush ==
    /\ pc = "idle"
    /\ \E n \in 1..MaxChunk :
          /\ blocks + n <= MaxProcessBlocks
          /\ overlapBuffer' = overlapBuffer \o [i \in 1..n |-> pushed + i]
          /\ pushed' = pushed + n
          /\ pc' = LoopOrReturn(overlapBuffer \o [i \in 1..n |-> pushed + i])
    /\ UNCHANGED <<dcfg, det, now, blocks, emitted, hist, geomVars, detCallbackPtr,
                   loaded, log, delivered, stored, decVars, feedVars, adaVars, refVars>>

\* block magnitudes: silence or a loud tone
ProcessMagnitudes == {<<0, 1>>, <<1, 1>>}

\* Process: one pass of the loop, processBlock up to the Load of emitEvent;
\* a pass that confirms no transition slides the buffer at once
ProcessStep ==
    /\ pc = "loop" /\ CanTrack(det)
    /\ \E magnitude \in ProcessMagnitudes, dt \in {0, 1} :
          LET res == ProcessBlockOf(det, dcfg, magnitude, now + dt)
              slid == Slide(overlapBuffer, hopSize)
          IN  /\ now' = now + dt
              /\ det' = res.det
              /\ emitted' = res.event
              /\ IF res.event = NoEvent
                 THEN /\ overlapBuffer' = slid
                      /\ pc' = LoopOrReturn(slid)
                      /\ UNCHANGED <<loaded, log>>
                 ELSE /\ loaded' = detCallbackPtr
                      /\ log' = Append(log, [kind |-> "tone", event |-> res.event,
                                             cb |-> detCallbackPtr])
                      /\ pc' = "call"
                      /\ UNCHANGED overlapBuffer
    /\ blocks' = blocks + 1
    /\ UNCHANGED <<dcfg, hist, geomVars, detCallbackPtr, delivered, pushed, stored,
                   decVars, feedVars, adaVars, refVars>>

\* Process: emitEvent invokes the callback it loaded, if any; processBlock
\* returns and the buffer slides
ProcessInvoke ==
    /\ pc = "call"
    /\ delivered' = IF loaded # NilCallback
                    THEN Append(delivered, [cb |-> loaded, event |-> emitted])
                    ELSE delivered
    /\ loaded' = NilCallback
    /\ overlapBuffer' = Slide(overlapBuffer, hopSize)
    /\ pc' = LoopOrReturn(Slide(overlapBuffer, hopSize))
    /\ UNCHANGED <<dcfg, det, now, blocks, emitted, hist, geomVars, detCallbackPtr,
                   log, pushed, stored, decVars, feedVars, adaVars, refVars>>

\* Detector.Reset, called between two Process calls
ProcessReset ==
    /\ pc = "idle" /\ Resets < MaxResets
    /\ det' = ResetDetector(det)
    /\ overlapBuffer' = << >>
    /\ emitted' = NoEvent
    /\ log' = Append(log, [kind |-> "reset", before |-> det,
                           carried |-> Len(overlapBuffer), blocks |-> blocks])
    /\ pushed' = 0
    /\ UNCHANGED <<dcfg, now, blocks, hist, geomVars, detCallbackPtr, pc, loaded,
                   delivered, stored, decVars, feedVars, adaVars, refVars>>

BlockSizes == {2, 3}

\* AGC off without warmup, or AGC on with one warmup block
ProcessConfigs ==
    { [Threshold |-> <<1, 2>>, Hysteresis |-> h, AGCEnabled |-> agc,
       AGCAttack |-> <<1, 1>>, AGCDecay |-> <<1, 2>>,
       AGCWarmupBlocks |-> IF agc THEN 1 ELSE 0, OverlapPct |-> o] :
        h \in {1, 2}, agc \in BOOLEAN, o \in {0, 50} }

InitProcess ==
    /\ \E cfg \in ProcessConfigs, bs \in BlockSizes : NewDetector(cfg, bs)
    /\ NewCapture
    /\ NoGoertzel
    /\ NewDecoder(DefaultDecoderConfig)
    /\ NewAdaptiveDecoder(DefaultAdaptiveConfig, DefaultInterCharBoundary)
    /\ pat = 0 /\ pos = 0

NextProcess ==
    ProcessPush \/ ProcessStep \/ ProcessInvoke \/ ProcessReset \/ DetSetCallback

SpecProcess == InitProcess /\ [][NextProcess]_vars

IsTone(e) == e.kind = "tone"

\* the blocks processed since construction or the last Reset
RECURSIVE BlocksAtReset(_)
BlocksAtReset(i) ==
    IF i = 0 THEN 0
    ELSE IF log[i].kind = "reset" THEN log[i].blocks ELSE BlocksAtReset(i - 1)

BlocksSinceReset == blocks - BlocksAtReset(Len(log))

\* C37: between construction (or a Reset) and the next Reset the confirmed
\* transitions alternate: the first has ToneOn = true, each later one the
\* opposite of its predecessor, and ToneOn is what ToneState() returns right
\* after the event
ToneEventsAlternate ==
    /\ \A i \in 1..Len(log) :
          IsTone(log[i]) =>
             log[i].event.ToneOn =
                IF i = 1 THEN TRUE
                ELSE IF IsTone(log[i - 1]) THEN ~log[i - 1].event.ToneOn
                ELSE TRUE
    /\ (log # << >> /\ IsTone(log[Len(log)])) =>
          det.toneState = log[Len(log)].event.ToneOn

\* a tone confirmed, a Reset during the tone, the tone confirmed again and
\* then its end: the callback is being invoked with ToneOn = false
ToneOnAgainAfterReset ==
    /\ Len(log) = 4 /\ pc = "call"
    /\ IsTone(log[1]) /\ log[1].event.ToneOn
    /\ log[2].kind = "reset"
    /\ IsTone(log[3]) /\ log[3].event.ToneOn
    /\ IsTone(log[4]) /\ ~log[4].event.ToneOn /\ ~det.toneState

\* C27: the blocks depend only on the samples pushed since construction or
\* the last Reset, whatever the chunking: block k is the window of block_size
\* samples starting at k * hop, with hop = block_size - floor(block_size *
\* overlap_pct / 100), and after n samples floor((n - block_size) / hop) + 1
\* blocks have been processed, none when n < block_size
BlocksAreHopSpacedWindows ==
    LET k == BlocksSinceReset
        start == (IF pc = "call" THEN k - 1 ELSE k) * hopSize
    IN  /\ hopSize = blockSize - ((blockSize * dcfg.OverlapPct) \div 100)
        /\ overlapBuffer = [i \in 1..(pushed - start) |-> start + i]
        /\ pc # "idle" => Len(overlapBuffer) >= blockSize
        /\ pc = "idle" =>
              k = IF pushed < blockSize THEN 0
                  ELSE ((pushed - blockSize) \div hopSize) + 1

\* after a Reset that dropped carried-over samples, two overlapping blocks
\* were processed and a sample is carried over
OverlappingBlocksAfterReset ==
    /\ pc = "idle" /\ Resets = 1
    /\ \E i \in 1..Len(log) : ~IsTone(log[i]) /\ log[i].carried > 0
    /\ BlocksSinceReset >= 2
    /\ hopSize < blockSize
    /\ overlapBuffer # << >>

\* C11: Detector.Reset empties the carry-over buffer, sets agc_peak to 0.001,
\* sets the confirmed and pending states to OFF with hysteresis count 0 and
\* clears last_transition, so that the next ToneEvent carries Duration zero;
\* the configuration and the registered callback are left unchanged.
ResetClearsDetectorState ==
    /\ [][Resets' > Resets =>
            /\ overlapBuffer' = << >>
            /\ det'.agcPeak = <<1, 1000>>
            /\ det'.toneState = FALSE /\ det'.pendingState = FALSE
            /\ det'.hysteresisCount = 0
            /\ det'.lastTransition = 0
            /\ dcfg' = dcfg /\ geomVars' = geomVars
            /\ detCallbackPtr' = detCallbackPtr]_vars
    /\ [](\A i \in 2..Len(log) :
            (IsTone(log[i]) /\ ~IsTone(log[i - 1])) => log[i].event.Duration = 0)

\* a Reset met carried-over samples, a confirmed tone and a raised peak, and
\* the next transition was delivered to the callback that was registered
ResetThenTransition ==
    \E i \in 2..Len(log) :
        /\ IsTone(log[i]) /\ ~IsTone(log[i - 1])
        /\ log[i - 1].carried > 0
        /\ log[i - 1].before.toneState /\ log[i - 1].before.lastTransition # 0
        /\ log[i - 1].before.agcPeak = ROne
        /\ log[i].cb # NilCallback /\ log[i].event.Timestamp > 1
        /\ delivered # << >>

\* C15: given a non-decreasing clock, every ToneEvent delivered to a callback
\* has a Timestamp >= that of every event delivered before it, and every
\* Duration is >= 0.
TimestampsNonDecreasing ==
    /\ \A i, j \in 1..Len(delivered) :
          i < j => delivered[i].event.Timestamp <= delivered[j].event.Timestamp
    /\ \A i \in 1..Len(delivered) : delivered[i].event.Duration >= 0

\* three events were delivered, two of them at the same clock reading
ThreeDeliveredWithTie ==
    /\ Len(delivered) >= 3
    /\ delivered[1].event.Timestamp = delivered[2].event.Timestamp
    /\ delivered[2].event.Timestamp < delivered[3].event.Timestamp

\* C16: each ToneEvent's Duration is its Timestamp minus the Timestamp of the
\* previous confirmed transition since construction or the last Reset, whether
\* or not a callback was registered then, and zero for the first transition.
DurationSincePreviousTransition ==
    \A i \in 1..Len(log) :
        IsTone(log[i]) =>
            log[i].event.Duration =
                IF i > 1 /\ IsTone(log[i - 1])
                THEN log[i].event.Timestamp - log[i - 1].event.Timestamp
                ELSE 0

\* a delivered event measures its Duration from a transition that was
\* confirmed while no callback was registered
DurationFromUndeliveredTransition ==
    \E i \in 2..Len(log) :
        /\ IsTone(log[i]) /\ IsTone(log[i - 1])
        /\ log[i - 1].cb = NilCallback /\ log[i].cb # NilCallback
        /\ log[i].event.Duration > 0
        /\ \E k \in 1..Len(delivered) : delivered[k].event = log[i].event

\* the transitions whose Load found a callback
Loaded == SelectSeq(log, LAMBDA e : IsTone(e) /\ e.cb # NilCallback)

\* C17: under any interleaving of SetCallback with Process, each confirmed
\* transition invokes at most one callback, the callback invoked is one that
\* some SetCallback call stored (never a mixture of two values), and a
\* transition whose Load finds the slot empty invokes nothing but still
\* updates the confirmed tone state and last_transition.
CallbackLoadedAtomically ==
    /\ loaded \in stored \cup {NilCallback}
    /\ detCallbackPtr \in stored \cup {NilCallback}
    /\ Len(delivered) =
          Len(Loaded) - (IF pc = "call" /\ loaded # NilCallback THEN 1 ELSE 0)
    /\ \A k \in 1..Len(delivered) :
          /\ delivered[k].cb \in stored
          /\ delivered[k].cb = Loaded[k].cb
          /\ delivered[k].event = Loaded[k].event
    /\ (log # << >> /\ IsTone(log[Len(log)])) =>
          /\ det.toneState = log[Len(log)].event.ToneOn
          /\ det.lastTransition = log[Len(log)].event.Timestamp

\* SetCallback emptied the slot between the Load and the invocation, after an
\* earlier transition had found the slot empty
SlotChangedBeforeInvocation ==
    /\ pc = "call" /\ loaded # NilCallback /\ detCallbackPtr = NilCallback
    /\ \E i \in 1..Len(log) : IsTone(log[i]) /\ log[i].cb = NilCallback

----------------------------------------------------------------------------
(* The pattern layer: AdaptiveDecoder of internal/cw/adaptive.go *)

MaxElementBuffer == 50
MinBreakConfidence == <<4, 5>>
MinBoundaryChange == <<1, 20>>

NoMatch == [Pattern |-> 0]

RAbs(a) == IF a[1] < 0 THEN <<-a[1], a[2]>> ELSE a

\* the largest and the smallest of a non-empty set of rationals
RMax(S) == CHOOSE x \in S : \A y \in S : RLe(y, x)
RMin(S) == CHOOSE x \in S : \A y \in S : RLe(x, y)

\* patternMatches[text], zero for a key the map does not hold
MatchCount(matches, k) == IF k \in DOMAIN matches THEN matches[k] ELSE 0

\* the buffer keeps one element more than MaxElementBuffer
TrimBufferKeepsOneMore(buffer) ==
    IF Len(buffer) > MaxElementBuffer + 1
    THEN SubSeq(buffer, Len(buffer) - MaxElementBuffer, Len(buffer))
    ELSE buffer

\* RecordElement's trim of the buffer to its last MaxElementBuffer elements
TrimBuffer(buffer) ==
    IF Len(buffer) > MaxElementBuffer
    THEN SubSeq(buffer, Len(buffer) - MaxElementBuffer + 1, Len(buffer))
    ELSE buffer

\* checkPatterns: the elements after the last word boundary that precedes the
\* newest element
CurrentWord(buffer) ==
    LET ends == {j \in 1..(Len(buffer) - 1) : buffer[j].IsWordEnd}
        start == IF ends = {} THEN 1
                 ELSE (CHOOSE j \in ends : \A k \in ends : k <= j) + 1
    IN  SubSeq(buffer, start, Len(buffer))

\* calculateBreakConfidence; break indices are 0-based
BreakConfidence(p, elements) ==
    IF p.Breaks = {} THEN ROne
    ELSE Norm(Cardinality({b \in p.Breaks :
                              b < Len(elements) /\ elements[b + 1].IsCharEnd}),
              Cardinality(p.Breaks))

\* gap positions that take in the gap after the last element
GapPositionsWithLast(p, elements) ==
    {i \in 0..(Len(p.Elements) - 1) : i < Len(elements)}

\* the gap positions calculateSuggestedBoundary looks at (0-based)
GapPositions(p, elements) ==
    {i \in 0..(Len(p.Elements) - 2) : i < Len(elements) - 1}

GapRatio(e, dit) == RDiv(RInt(Milliseconds(e.GapAfter)), dit)

\* calculateSuggestedBoundary reads the Decoder's dit estimate
ReadsDitEstimate(p, elements) == ~(p.Breaks = {} \/ Len(elements) < 2)

\* calculateSuggestedBoundary, ditDuration being a.decoder.ditDurationMs
SuggestedBoundary(p, elements, ditDuration) ==
    IF ~ReadsDitEstimate(p, elements) THEN RZero
    ELSE LET at == GapPositions(p, elements)
             interGaps == {GapRatio(elements[i + 1], ditDuration) : i \in at \cap p.Breaks}
             intraGaps == {GapRatio(elements[i + 1], ditDuration) : i \in at \ p.Breaks}
         IN  IF intraGaps = {} \/ interGaps = {} THEN RZero
             ELSE LET maxIntra == RMax(intraGaps \cup {RZero})
                      minInter == RMin(interGaps)
                  IN  IF RGt(minInter, maxIntra)
                      THEN RDiv(RAdd(maxIntra, minInter), RInt(2))
                      ELSE RZero

\* the checks of matchPattern that come before the timing suggestion
Matches(p, elements) ==
    /\ Len(elements) = Len(p.Elements)
    /\ \A i \in 1..Len(p.Elements) : elements[i].IsDah = p.Elements[i]
    /\ RLe(MinBreakConfidence, BreakConfidence(p, elements))

\* matchPattern for the dictionary entry at position k
MatchPattern(k, elements, ditDuration) ==
    LET p == CommonPatterns[k]
    IN  IF Matches(p, elements)
        THEN [Pattern |-> k, Confidence |-> BreakConfidence(p, elements),
              SuggestedInterCharBoundary |->
                  SuggestedBoundary(p, elements, ditDuration)]
        ELSE NoMatch

\* a choice that lets a later pattern replace an equally good earlier one
BetterMatchLatest(match, bestMatch) ==
    IF /\ match # NoMatch
       /\ \/ bestMatch = NoMatch
          \/ RGt(match.Confidence, bestMatch.Confidence)
          \/ /\ match.Confidence = bestMatch.Confidence
             /\ CommonPatterns[match.Pattern].Priority
                    >= CommonPatterns[bestMatch.Pattern].Priority
    THEN match ELSE bestMatch

\* findBestMatch's choice between the match of one pattern and the best so far
BetterMatch(match, bestMatch) ==
    IF /\ match # NoMatch
       /\ \/ bestMatch = NoMatch
          \/ RGt(match.Confidence, bestMatch.Confidence)
          \/ /\ match.Confidence = bestMatch.Confidence
             /\ CommonPatterns[match.Pattern].Priority
                    > CommonPatterns[bestMatch.Pattern].Priority
    THEN match ELSE bestMatch

RECURSIVE FindBestFrom(_, _, _, _)
\* the loop of findBestMatch from dictionary position k on
FindBestFrom(k, bestMatch, elements, ditDuration) ==
    IF k > Len(CommonPatterns) THEN bestMatch
    ELSE FindBestFrom(k + 1,
                      BetterMatch(IF Len(CommonPatterns[k].Elements) > Len(elements)
                                  THEN NoMatch
                                  ELSE MatchPattern(k, elements, ditDuration),
                                  bestMatch),
                      elements, ditDuration)

\* findBestMatch
FindBestMatch(elements, ditDuration) == FindBestFrom(1, NoMatch, elements, ditDuration)

RECURSIVE DecodeFrom(_, _)
\* the loop of decodeElements from tree index i on, and its closing step
DecodeFrom(treeIdx, elements) ==
    IF elements = << >>
    THEN IF treeIdx > 1 /\ MorseTree[treeIdx] # NoChar
         THEN <<MorseTree[treeIdx]>> ELSE << >>
    ELSE LET elem == Head(elements)
             moved == IF elem.IsDah THEN treeIdx * 2 + 1 ELSE treeIdx * 2
         IN  IF moved >= LenMorseTree THEN DecodeFrom(1, Tail(elements))
             ELSE IF elem.IsCharEnd
                  THEN (IF MorseTree[moved] # NoChar
                        THEN <<MorseTree[moved]>> ELSE << >>)
                       \o DecodeFrom(1, Tail(elements))
                  ELSE DecodeFrom(moved, Tail(elements))

\* decodeElements
DecodeElements(elements) == DecodeFrom(1, elements)

\* the boundary handlePatternMatch computes from the current one
NewBoundary(currentBoundary, suggested, cfg) ==
    RAdd(RMul(currentBoundary, RSub(ROne, cfg.AdjustmentRate)),
         RMul(suggested, cfg.AdjustmentRate))

\* handlePatternMatch without the test for a meaningful change
HandlePatternMatchNoDeadBand(match, elements, matches, currentBoundary, cfg) ==
    LET k == match.Pattern
        matchCount == MatchCount(matches, k) + 1
        newBoundary == NewBoundary(currentBoundary,
                                   match.SuggestedInterCharBoundary, cfg)
        adjusted == /\ matchCount >= cfg.MinMatchesForAdjust
                    /\ RGt(match.SuggestedInterCharBoundary, RZero)
    IN  [matches |-> [j \in DOMAIN matches \cup {k} |->
                         IF j = k THEN matchCount ELSE matches[j]],
         boundary |-> IF adjusted THEN newBoundary ELSE currentBoundary,
         output |-> [Original |-> DecodeElements(SubSeq(elements, 1,
                                      Len(CommonPatterns[k].Elements))),
                     Corrected |-> CommonPatterns[k].Text,
                     Pattern |-> k,
                     Confidence |-> match.Confidence,
                     TimingAdjusted |-> adjusted]]

\* handlePatternMatch: the new counts, the new boundary and the output
HandlePatternMatch(match, elements, matches, currentBoundary, cfg) ==
    LET k == match.Pattern
        matchCount == MatchCount(matches, k) + 1
        newBoundary == NewBoundary(currentBoundary,
                                   match.SuggestedInterCharBoundary, cfg)
        adjusted == /\ matchCount >= cfg.MinMatchesForAdjust
                    /\ RGt(match.SuggestedInterCharBoundary, RZero)
                    /\ RGt(RAbs(RSub(newBoundary, currentBoundary)), MinBoundaryChange)
    IN  [matches |-> [j \in DOMAIN matches \cup {k} |->
                         IF j = k THEN matchCount ELSE matches[j]],
         boundary |-> IF adjusted THEN newBoundary ELSE currentBoundary,
         output |-> [Original |-> DecodeElements(SubSeq(elements, 1,
                                      Len(CommonPatterns[k].Elements))),
                     Corrected |-> CommonPatterns[k].Text,
                     Pattern |-> k,
                     Confidence |-> match.Confidence,
                     TimingAdjusted |-> adjusted]]

\* checkPatterns once findBestMatch has returned match (NoMatch when
\* RecordElement or checkPatterns returned before it), and what it leaves
CheckPatterns(appended, elements, checked, match, matches, currentBoundary, cfg) ==
    LET accepted == match # NoMatch /\ RLe(cfg.MinConfidence, match.Confidence)
        handled == HandlePatternMatch(match, elements, matches, currentBoundary, cfg)
    IN  [buffer |-> appended,
         matches |-> IF accepted THEN handled.matches ELSE matches,
         boundary |-> IF accepted THEN handled.boundary ELSE currentBoundary,
         output |-> IF accepted THEN <<handled.output>> ELSE << >>,
         matched |-> IF accepted THEN match.Pattern ELSE 0,
         suggested |-> IF accepted THEN match.SuggestedInterCharBoundary ELSE RZero,
         readsDit |-> checked /\ \E k \in 1..Len(CommonPatterns) :
                         /\ Matches(CommonPatterns[k], elements)
                         /\ ReadsDitEstimate(CommonPatterns[k], elements)]

\* AdaptiveDecoder.RecordElement on the given pattern-layer state
RecordElementOf(buffer, matches, currentBoundary, cfg, ditDuration, elem) ==
    LET appended == TrimBuffer(Append(buffer, elem))
        elements == CurrentWord(appended)
        checked == (elem.IsWordEnd \/ elem.IsCharEnd)
                   /\ Len(appended) >= 2 /\ Len(elements) >= 2
    IN  CheckPatterns(appended, elements, checked,
                      IF checked THEN FindBestMatch(elements, ditDuration)
                      ELSE NoMatch,
                      matches, currentBoundary, cfg)

\* a dit estimate other than the given one
OtherDit(dit) == RAdd(dit, RInt(20))

\* AdaptiveDecoder.RecordElement
RecordElement(elem) ==
    LET res == RecordElementOf(elementBuffer, patternMatches, interCharBoundary,
                               aconfig, ditDurationMs, elem)
        other == RecordElementOf(elementBuffer, patternMatches, interCharBoundary,
                                 aconfig, OtherDit(ditDurationMs), elem)
    IN  /\ elementBuffer' = res.buffer
        /\ patternMatches' = res.matches
        /\ interCharBoundary' = res.boundary
        /\ corrected' = IF correctedCallback # "nil"
                        THEN corrected \o res.output ELSE corrected
        /\ recorded' = recorded + 1
        /\ lastRecord' = [op |-> "record", readsDit |-> res.readsDit,
                          matched |-> res.matched,
                          adjusted |-> res.boundary # interCharBoundary,
                          before |-> interCharBoundary,
                          suggested |-> res.suggested,
                          otherDit |-> other.boundary]
        /\ UNCHANGED <<aconfig, correctedCallback>>

----------------------------------------------------------------------------
(* The pattern layer fed with elements *)

MaxRecords == 4

\* the elements a caller records: a dit or a dah of 20 WPM, followed by an
\* intra-character gap, a character gap (flagged as one or missed) or a word gap
RecordInputs ==
    { [IsDah |-> d, Duration |-> IF d THEN 180000 ELSE 60000,
       GapAfter |-> g[1], IsCharEnd |-> g[2], IsWordEnd |-> g[3]] :
        d \in BOOLEAN,
        g \in {<<80000, FALSE, FALSE>>, <<240000, TRUE, FALSE>>,
               <<240000, FALSE, FALSE>>, <<560000, TRUE, TRUE>>} }

\* RecordElement, the element stamped with time.Now()
AdaptiveRecord ==
    /\ now <= MaxRecords
    /\ \E e \in RecordInputs :
          RecordElement([IsDah |-> e.IsDah, Duration |-> e.Duration,
                         GapAfter |-> e.GapAfter, Timestamp |-> now,
                         IsCharEnd |-> e.IsCharEnd, IsWordEnd |-> e.IsWordEnd])
    /\ now' = now + 1
    /\ UNCHANGED <<decVars, feedVars, refVars, dcfg, det, blocks, emitted, hist,
                   procVars, lockVars>>

\* AdaptiveDecoder.Reset
AdaptiveReset ==
    /\ elementBuffer' = << >>
    /\ patternMatches' = << >>
    /\ recorded' = 0
    /\ lastRecord' = [NoRecord EXCEPT !.op = "reset", !.before = interCharBoundary]
    /\ UNCHANGED <<aconfig, correctedCallback, corrected, interCharBoundary,
                   lockVars, decVars, feedVars, detVars, refVars>>

\* AdaptiveDecoder.SetCorrectedCallback
SetCorrectedCallback ==
    /\ \E cb \in {"nil", "cb"} : correctedCallback' = cb
    /\ UNCHANGED <<aconfig, elementBuffer, patternMatches, corrected,
                   interCharBoundary, recorded, lastRecord, lockVars,
                   decVars, feedVars, detVars, refVars>>

\* Decoder.Reset of the wrapped Decoder, called right after AdaptiveDecoder.Reset
WrappedReset == lastRecord.op = "reset" /\ Reset

AdaptiveConfigs ==
    { [Enabled |-> e, MinConfidence |-> RZero, AdjustmentRate |-> r,
       MinMatchesForAdjust |-> m] :
        e \in BOOLEAN, r \in {RZero, <<1, 2>>}, m \in {0, 1} }

\* the wrapped Decoder: fixed timing at 15 or 20 WPM
WrappedDecoderConfigs ==
    { [DefaultDecoderConfig EXCEPT !.InitialWPM = n] : n \in {15, 20} }

InitAdaptive ==
    /\ \E cfg \in WrappedDecoderConfigs : NewDecoder(cfg)
    /\ \E acfg \in AdaptiveConfigs :
          NewAdaptiveDecoder(acfg, DefaultInterCharBoundary)
    /\ pat = 0 /\ pos = 0
    /\ NewDetector(DefaultDetectorConfig, DefaultBlockSize)
    /\ NewCapture
    /\ NoGoertzel

NextAdaptive ==
    AdaptiveRecord \/ AdaptiveReset \/ SetCorrectedCallback \/ WrappedReset

SpecAdaptive == InitAdaptive /\ [][NextAdaptive]_vars

\* C13 as stated: after the pattern layer and its wrapped Decoder are both
\* reset, the element buffer is empty, every match count is zero and the
\* inter-character boundary is the one configured at construction.
BothResetsRestoreConstruction ==
    (lastRecord.op = "reset" /\ last.op = "reset") =>
        /\ elementBuffer = << >>
        /\ patternMatches = << >>
        /\ interCharBoundary = DefaultInterCharBoundary

\* C19 as stated: no RecordElement call reads the Decoder's dit estimate (nor
\* tree_index or in_char, which RecordElementOf does not take), and the
\* boundary it leaves is the one it would leave with any other dit estimate.
RecordElementIgnoresDecoderState ==
    lastRecord.op = "record" =>
        /\ ~lastRecord.readsDit
        /\ lastRecord.otherDit = interCharBoundary

----------------------------------------------------------------------------
(* The pattern layer fed with a long stream of elements *)

MaxStream == 55

\* the n-th element of the stream: alternating dahs and dits, every fifth
\* ending a character and every tenth a word
StreamElement(n) ==
    [IsDah |-> n % 2 = 0, Duration |-> 80000, GapAfter |-> 80000,
     Timestamp |-> now, IsCharEnd |-> n % 5 = 0, IsWordEnd |-> n % 10 = 0]

\* RecordElement on the next element of the stream
StreamRecord ==
    /\ now <= MaxStream
    /\ RecordElement(StreamElement(now - 1))
    /\ now' = now + 1
    /\ UNCHANGED <<decVars, feedVars, refVars, dcfg, det, blocks, emitted, hist,
                   procVars, lockVars>>

InitStream == InitAdaptive

NextStream == StreamRecord \/ AdaptiveReset

SpecStream == InitStream /\ [][NextStream]_vars

\* C20: the element buffer never holds more than 50 elements, and after n
\* RecordElement calls since construction or the last Reset it holds exactly
\* the most recent min(n, 50) recorded elements in recording order.
BufferHoldsMostRecent ==
    /\ Len(elementBuffer) <= 50
    /\ Len(elementBuffer) = (IF recorded < 50 THEN recorded ELSE 50)
    /\ \A i \in 1..Len(elementBuffer) :
          elementBuffer[i].Timestamp = now - Len(elementBuffer) + i - 1

\* more than fifty elements were recorded since a Reset, and the oldest were
\* dropped
OldestElementsDropped ==
    /\ recorded >= 52 /\ Len(elementBuffer) = 50
    /\ elementBuffer[1].Timestamp = now - 50
    /\ now - 1 > recorded

----------------------------------------------------------------------------
(* Two goroutines calling into the Decoder and the pattern layer *)

MaxCalls == 5

\* the methods of the Decoder that touch ditDurationMs, treeIndex and inChar
DecoderCalls == {"toneOff", "toneOn", "wpm", "reset"}

\* the wrapped Decoder: adaptive timing at 20 WPM
LockDecoderConfig ==
    [DefaultDecoderConfig EXCEPT !.InitialWPM = 20, !.AdaptiveTiming = TRUE,
                                 !.AdaptiveSmoothing = <<1, 2>>]

\* tones of 40 ms, shorter than a dit, and of a dah; a character gap
LockToneDurations == {40000, ExactUs(config.InitialWPM, 3)}
LockGapDurations == {ExactUs(config.InitialWPM, 3)}

\* the elements recorded: dits and dahs inside a character or ending one
LockRecordInputs ==
    { e \in RecordInputs : ~e.IsWordEnd /\ (e.IsCharEnd \/ e.GapAfter = 80000) }

\* d.mu.Lock() at the head of HandleToneEvent, CurrentWPM or Reset: blocks
\* while another goroutine holds the mutex
DecoderLock(t) ==
    /\ now <= MaxCalls
    /\ thr[t].at = "idle"
    /\ mu = 0
    /\ \E op \in DecoderCalls :
          /\ op = "toneOff" => CanAdapt
          /\ thr' = [thr EXCEPT ![t] = [at |-> "locked", op |-> op, elem |-> 0]]
    /\ mu' = t
    /\ now' = now + 1
    /\ UNCHANGED <<decVars, feedVars, refVars, dcfg, det, blocks, emitted, hist,
                   procVars, aconfig, elementBuffer, patternMatches,
                   correctedCallback, corrected, interCharBoundary, recorded,
                   lastRecord, amu, audioVars>>

\* the body of the method and its deferred d.mu.Unlock()
DecoderUnlock(t) ==
    /\ thr[t].at = "locked"
    /\ CASE thr[t].op = "toneOff" -> \E us \in LockToneDurations : HandleToneEnd(us)
         [] thr[t].op = "toneOn" -> \E us \in LockGapDurations : HandleSilenceEnd(us)
         [] thr[t].op = "wpm" ->
                /\ lastWPM' = CurrentWPMOf(ditDurationMs, config)
                /\ UNCHANGED <<config, ditDurationMs, treeIndex, inChar, callbackPtr,
                               received, elems, evCount, last, exactOnly, run>>
         [] OTHER -> ResetLocked
    /\ mu' = 0
    /\ thr' = [thr EXCEPT ![t] = Idle]
    /\ UNCHANGED <<feedVars, refVars, detVars, aconfig, elementBuffer,
                   patternMatches, correctedCallback, corrected, interCharBoundary,
                   recorded, lastRecord, amu, audioVars>>

\* a.mu.Lock() at the head of RecordElement; the element is stamped and, when
\* checkPatterns will reach calculateSuggestedBoundary past its first return,
\* the goroutine is on its way to read decoder.ditDurationMs
RecordLock(t) ==
    /\ now <= MaxCalls
    /\ thr[t].at = "idle"
    /\ amu = 0
    /\ \E e \in LockRecordInputs :
          LET elem == [IsDah |-> e.IsDah, Duration |-> e.Duration,
                       GapAfter |-> e.GapAfter, Timestamp |-> now,
                       IsCharEnd |-> e.IsCharEnd, IsWordEnd |-> e.IsWordEnd]
              res == RecordElementOf(elementBuffer, patternMatches,
                                     interCharBoundary, aconfig, ditDurationMs, elem)
          IN  thr' = [thr EXCEPT ![t] =
                        [at |-> IF res.readsDit THEN "reading" ELSE "recording",
                         op |-> "record", elem |-> elem]]
    /\ amu' = t
    /\ now' = now + 1
    /\ UNCHANGED <<decVars, feedVars, refVars, dcfg, det, blocks, emitted, hist,
                   procVars, aconfig, elementBuffer, patternMatches,
                   correctedCallback, corrected, interCharBoundary, recorded,
                   lastRecord, mu, audioVars>>

\* the body of RecordElement, with the dit estimate as it is when read, and
\* its deferred a.mu.Unlock()
RecordUnlock(t) ==
    /\ thr[t].at \in {"recording", "reading"}
    /\ RecordElement(thr[t].elem)
    /\ amu' = 0
    /\ thr' = [thr EXCEPT ![t] = Idle]
    /\ UNCHANGED <<decVars, feedVars, refVars, detVars, mu, audioVars>>

InitLock ==
    /\ NewDecoder(LockDecoderConfig)
    /\ NewAdaptiveDecoder([DefaultAdaptiveConfig EXCEPT !.MinMatchesForAdjust = 1],
                          DefaultInterCharBoundary)
    /\ pat = 0 /\ pos = 0
    /\ NewDetector(DefaultDetectorConfig, DefaultBlockSize)
    /\ NewCapture
    /\ NoGoertzel

NextLock ==
    \/ \E t \in Goroutines : DecoderLock(t)
    \/ \E t \in Goroutines : DecoderUnlock(t)
    \/ \E t \in Goroutines : RecordLock(t)
    \/ \E t \in Goroutines : RecordUnlock(t)

SpecLock == InitLock /\ [][NextLock]_vars

\* the goroutine is between the first and the last access of its call to
\* ditDurationMs, treeIndex or inChar
Accessing(t) == thr[t].at \in {"locked", "reading"}

\* C18 as stated: every goroutine reading or writing the dit estimate, the
\* tree index or in_char holds the Decoder's mutex, so no two goroutines
\* access them at the same time.
DecoderStateUnderMutex ==
    /\ \A t \in Goroutines : Accessing(t) => mu = t
    /\ \A t, u \in Goroutines : (Accessing(t) /\ Accessing(u)) => t = u

\* this step is a RecordElement call that accepted a pattern match
AcceptedMatchStep ==
    /\ recorded' = recorded + 1
    /\ lastRecord'.op = "record" /\ lastRecord'.matched # 0

\* the condition under which handlePatternMatch is said to move the boundary
BoundaryMoves(count, current, suggested, cfg) ==
    /\ count >= cfg.MinMatchesForAdjust
    /\ RGt(suggested, RZero)
    /\ RGt(RAbs(RSub(NewBoundary(current, suggested, cfg), current)), <<1, 20>>)

\* C34 as stated: an accepted pattern match increments that pattern's counter
\* by exactly one (and no other counter); the inter-character boundary changes
\* iff the counter has reached min_matches_for_adjust, a suggestion exists and
\* |new - current| > 0.05 with new = current * (1 - rate) + suggestion * rate;
\* when it changes it becomes new; and the corrected output delivered for the
\* match has TimingAdjusted true exactly when the boundary changed.
AcceptedMatchCountsAndAdjusts ==
    [][AcceptedMatchStep =>
        LET k == lastRecord'.matched
            count == MatchCount(patternMatches', k)
            changed == interCharBoundary' # interCharBoundary
        IN  /\ count = MatchCount(patternMatches, k) + 1
            /\ \A j \in 1..Len(CommonPatterns) :
                  j # k => MatchCount(patternMatches', j) = MatchCount(patternMatches, j)
            /\ changed <=> BoundaryMoves(count, interCharBoundary,
                                         lastRecord'.suggested, aconfig)
            /\ changed => interCharBoundary' =
                              NewBoundary(interCharBoundary, lastRecord'.suggested, aconfig)
            /\ correctedCallback # "nil" =>
                  /\ Len(corrected') = Len(corrected) + 1
                  /\ corrected'[Len(corrected')].Pattern = k
                  /\ corrected'[Len(corrected')].TimingAdjusted = changed
            /\ correctedCallback = "nil" => corrected' = corrected]_vars

\* the last delivered output belongs to the last RecordElement call
LastOutputOfLastRecord ==
    /\ lastRecord.op = "record" /\ lastRecord.matched # 0
    /\ corrected # << >>
    /\ corrected[Len(corrected)].Pattern = lastRecord.matched

\* a counted match moved the boundary and was reported as adjusted
AdjustedMatchDelivered ==
    /\ LastOutputOfLastRecord
    /\ patternMatches[lastRecord.matched] >= aconfig.MinMatchesForAdjust
    /\ lastRecord.adjusted
    /\ corrected[Len(corrected)].TimingAdjusted
    /\ interCharBoundary = NewBoundary(lastRecord.before, lastRecord.suggested, aconfig)

\* the last RecordElement call accepted a match, whose elements are the
\* current word
MatchJustAccepted == lastRecord.op = "record" /\ lastRecord.matched # 0

\* gap_after of the element at 0-based position i, over the dit estimate
RatioAt(elements, i, dit) ==
    RDiv(RInt(elements[i + 1].GapAfter \div 1000), dit)

CharEndShare(p, elements) ==
    IF p.Breaks = {} THEN ROne
    ELSE Norm(Cardinality({b \in p.Breaks : elements[b + 1].IsCharEnd}),
              Cardinality(p.Breaks))

\* the dictionary entry at position k qualifies for the elements
Qualifies(k, elements) ==
    LET p == CommonPatterns[k]
    IN  /\ Len(elements) = Len(p.Elements)
        /\ \A i \in 1..Len(elements) : elements[i].IsDah = p.Elements[i]
        /\ RLe(<<4, 5>>, CharEndShare(p, elements))

\* position j comes before position k in the order of the claim: higher
\* confidence, then higher priority, then earlier in the dictionary
Precedes(j, cj, k, ck) ==
    \/ RGt(cj, ck)
    \/ cj = ck /\ CommonPatterns[j].Priority > CommonPatterns[k].Priority
    \/ cj = ck /\ CommonPatterns[j].Priority = CommonPatterns[k].Priority /\ j < k

\* findBestMatch's loop over two candidates met in dictionary order
ChosenOfTwo(j, cj, k, ck) ==
    BetterMatch([Pattern |-> k, Confidence |-> ck, SuggestedInterCharBoundary |-> RZero],
                BetterMatch([Pattern |-> j, Confidence |-> cj,
                             SuggestedInterCharBoundary |-> RZero], NoMatch))

\* C36 as stated: findBestMatch over the current word returns a dictionary
\* pattern only if the elements have exactly its length, agree with it on
\* dit/dah everywhere and at least 80% of its break positions carry
\* is_char_end; among the qualifying patterns it returns the one with the
\* highest confidence, then the highest priority, then the earliest position;
\* it returns no match when none qualifies.
FindBestMatchReturnsBestQualifying ==
    /\ elementBuffer # << >> =>
          LET elements == CurrentWord(elementBuffer)
              result == FindBestMatch(elements, ditDurationMs)
              qualifying == {k \in 1..Len(CommonPatterns) : Qualifies(k, elements)}
          IN  /\ qualifying = {} <=> result = NoMatch
              /\ result # NoMatch =>
                    /\ result.Pattern \in qualifying
                    /\ result.Confidence =
                           CharEndShare(CommonPatterns[result.Pattern], elements)
                    /\ \A k \in qualifying \ {result.Pattern} :
                          Precedes(result.Pattern, result.Confidence,
                                   k, CharEndShare(CommonPatterns[k], elements))
              /\ MatchJustAccepted => result.Pattern = lastRecord.matched
    /\ recorded = 0 =>
          \A j, k \in 1..Len(CommonPatterns) : \A cj, ck \in {<<4, 5>>, ROne} :
              j < k => ChosenOfTwo(j, cj, k, ck).Pattern =
                           IF Precedes(j, cj, k, ck) THEN j ELSE k

\* a match returned for a word that some other pattern of the same length
\* does not qualify for
BestMatchAmongSameLength ==
    /\ MatchJustAccepted
    /\ LET elements == CurrentWord(elementBuffer)
       IN  /\ FindBestMatch(elements, ditDurationMs).Pattern = lastRecord.matched
           /\ Qualifies(lastRecord.matched, elements)
           /\ \E k \in 1..Len(CommonPatterns) :
                 /\ Len(CommonPatterns[k].Elements) = Len(elements)
                 /\ ~Qualifies(k, elements)

----------------------------------------------------------------------------
(* The pattern layer constructed with every kind of adjustment rate *)

\* the rates NewAdaptiveDecoder keeps: inside (0, 1), 1 and above 1
KeptAdjustmentRates == {<<1, 2>>, <<1, 1>>, <<2, 1>>}

InitRate ==
    /\ NewDecoder([DefaultDecoderConfig EXCEPT !.InitialWPM = 20])
    /\ \E r \in KeptAdjustmentRates :
          NewAdaptiveDecoder([Enabled |-> TRUE, MinConfidence |-> RZero,
                              AdjustmentRate |-> r, MinMatchesForAdjust |-> 1],
                             DefaultInterCharBoundary)
    /\ pat = 0 /\ pos = 0
    /\ NewDetector(DefaultDetectorConfig, DefaultBlockSize)
    /\ NewCapture
    /\ NoGoertzel

NextRate == AdaptiveRecord \/ AdaptiveReset

SpecRate == InitRate /\ [][NextRate]_vars

\* x lies strictly between a and b
StrictlyBetween(x, a, b) ==
    \/ RGt(x, a) /\ RGt(b, x)
    \/ RGt(a, x) /\ RGt(x, b)

\* C21 as stated: with any adjustment rate NewAdaptiveDecoder keeps, an
\* applied adjustment leaves the inter-character boundary strictly between
\* the previous boundary and the suggested one.
AdjustmentStaysShortOfSuggestion ==
    (lastRecord.op = "record" /\ lastRecord.adjusted) =>
        StrictlyBetween(interCharBoundary, lastRecord.before, lastRecord.suggested)

\* C22 as stated: with Enabled false no RecordElement call counts a pattern
\* match, invokes the corrected-output callback or changes the boundary.
DisabledLayerDoesNothing ==
    ~aconfig.Enabled =>
        /\ \A k \in DOMAIN patternMatches : patternMatches[k] = 0
        /\ corrected = << >>
        /\ interCharBoundary = DefaultInterCharBoundary

----------------------------------------------------------------------------
(* Walking the entries of the pattern dictionary through the Morse tree *)

\* the 0-based indices of the elements that end a character of entry p
SegmentEnds(p) == CommonPatterns[p].Breaks \cup {Len(CommonPatterns[p].Elements) - 1}

\* a segment that starts at the element before which the break occurs
SegmentFirstAtBreak(p, e) ==
    LET earlier == {b \in SegmentEnds(p) : b < e}
    IN  IF earlier = {} THEN 1
        ELSE (CHOOSE b \in earlier : \A c \in earlier : c <= b) + 1

\* the 1-based position of the first element of the segment ending at 0-based e
SegmentFirst(p, e) ==
    LET earlier == {b \in SegmentEnds(p) : b < e}
    IN  IF earlier = {} THEN 1
        ELSE (CHOOSE b \in earlier : \A c \in earlier : c <= b) + 2

\* the number of the segment ending at 0-based e, counted from 1
SegmentNumber(p, e) == Cardinality({b \in SegmentEnds(p) : b <= e})

RECURSIVE WalkElements(_, _)
\* the tree index reached from idx by the elements es (false = dit, true = dah)
WalkElements(idx, es) ==
    IF es = << >> THEN idx
    ELSE WalkElements(TreeStep(idx, Head(es)), Tail(es))

\* the walker takes the next element of its dictionary entry
WalkNext ==
    /\ pat > 0
    /\ pos < Len(CommonPatterns[pat].Elements)
    /\ pos' = pos + 1
    /\ UNCHANGED <<pat, decVars, adaVars, detVars, refVars>>

InitWalk ==
    /\ NewDecoder(DefaultDecoderConfig)
    /\ NewAdaptiveDecoder(DefaultAdaptiveConfig, DefaultInterCharBoundary)
    /\ pat \in 1..Len(CommonPatterns) /\ pos = 0
    /\ NewDetector(DefaultDetectorConfig, DefaultBlockSize)
    /\ NewCapture
    /\ NoGoertzel

NextWalk == WalkNext

SpecWalk == InitWalk /\ [][NextWalk]_vars

\* C23: each dictionary entry has as many segments as its text has
\* characters, and the segment that ends at the element just walked leads from
\* the tree root to the slot of the corresponding character of the text.
DictionaryEntriesWalkToText ==
    (pat > 0 /\ pos > 0 /\ (pos - 1) \in SegmentEnds(pat)) =>
        LET p == CommonPatterns[pat]
            n == SegmentNumber(pat, pos - 1)
            idx == WalkElements(1, SubSeq(p.Elements, SegmentFirst(pat, pos - 1), pos))
        IN  /\ Cardinality(SegmentEnds(pat)) = Len(p.Text)
            /\ n <= Len(p.Text)
            /\ idx < LenMorseTree
            /\ MorseTree[idx] = p.Text[n]

\* the three segments of 599 have been walked
ThreeSegmentEntryWalked ==
    /\ pat > 0 /\ Len(CommonPatterns[pat].Text) = 3
    /\ pos = Len(CommonPatterns[pat].Elements)
    /\ SegmentNumber(pat, pos - 1) = 3
    /\ Len(CommonPatterns[pat].Elements) = 15

----------------------------------------------------------------------------
(* The audio Capture of internal/audio/capture.go: callers of Init, Start,
   Stop and Close, the cancellation handler, the audio thread, a consumer *)

SampleChannelBufferSize == 64
MaxCaptureCalls == 4
MaxFrames == 66
MaxReceives == 1

\* everything that is not part of the Capture stays as it is
OnlyCapture ==
    UNCHANGED <<decVars, feedVars, refVars, detVars, aconfig, elementBuffer,
                patternMatches, correctedCallback, corrected, interCharBoundary,
                recorded, lastRecord, mu, amu, thr, dspVars>>

At(t, where) == cth[t].at = where
Goto(t, where) == [cth EXCEPT ![t].at = where]
MuFree == capture.mu = "free"
Called == [chist EXCEPT !.calls = @ + 1]
CanCall(t) == t \in CaptureCallers /\ At(t, "idle") /\ chist.calls < MaxCaptureCalls

\* device.Stop() and device.Uninit() on c.device, then c.device = nil
StopDevice(ds, d) == IF d = 0 THEN ds ELSE [ds EXCEPT ![d] = "uninit"]

\* device.Stop() returns once the device's thread has left the data callback
CallbackDone(d) ==
    IF d = 0 THEN TRUE ELSE devs[d] = "started" => At("audio", "idle")

\* Capture.Init: under c.mu, malgo.InitContext succeeds or fails
CaptureInit(t) ==
    /\ CanCall(t) /\ MuFree
    /\ \E ok \in BOOLEAN :
          capture' = IF capture.ctx = "nil" /\ ok
                     THEN [capture EXCEPT !.ctx = "live"] ELSE capture
    /\ chist' = [Called EXCEPT !.lateInit = @ \/ chist.closeReturned]
    /\ UNCHANGED <<samples, devs, cth, pending>>
    /\ OnlyCapture

\* Start: running.CompareAndSwap(false, true)
StartBegin(t) ==
    /\ CanCall(t)
    /\ chist' = Called
    /\ IF capture.running
       THEN UNCHANGED <<capture, cth>>
       ELSE /\ capture' = [capture EXCEPT !.running = TRUE]
            /\ cth' = Goto(t, "s_check")
    /\ UNCHANGED <<samples, devs, pending>>
    /\ OnlyCapture

\* Start: under c.mu, the context check and the device lookup
StartCheck(t) ==
    /\ At(t, "s_check") /\ MuFree
    /\ \E found \in BOOLEAN :
          cth' = Goto(t, IF capture.ctx = "nil" \/ ~found THEN "s_fail" ELSE "s_init")
    /\ UNCHANGED <<capture, samples, devs, pending, chist>>
    /\ OnlyCapture

\* Start: running.Store(false) before an error return
StartFail(t) ==
    /\ At(t, "s_fail")
    /\ capture' = [capture EXCEPT !.running = FALSE]
    /\ cth' = [cth EXCEPT ![t] = Outside]
    /\ UNCHANGED <<samples, devs, pending, chist>>
    /\ OnlyCapture

\* Start: malgo.InitDevice on the context read under the lock, which succeeds
\* or fails (also when Close has freed the context in the meantime)
StartInitDevice(t) ==
    /\ At(t, "s_init")
    /\ \/ /\ devs' = Append(devs, "init")
          /\ cth' = [cth EXCEPT ![t] = [at |-> "s_store", dev |-> Len(devs) + 1,
                                        buf |-> 0]]
       \/ /\ cth' = Goto(t, "s_fail")
          /\ UNCHANGED devs
    /\ UNCHANGED <<capture, samples, pending, chist>>
    /\ OnlyCapture

\* Start: under c.mu, c.device = device
StartStore(t) ==
    /\ At(t, "s_store") /\ MuFree
    /\ capture' = [capture EXCEPT !.device = cth[t].dev]
    /\ cth' = Goto(t, "s_devstart")
    /\ UNCHANGED <<samples, devs, pending, chist>>
    /\ OnlyCapture

\* Start: device.Start() succeeds or fails
StartDevice(t) ==
    /\ At(t, "s_devstart")
    /\ \/ /\ devs' = [devs EXCEPT ![cth[t].dev] = "started"]
          /\ cth' = Goto(t, "s_spawn")
       \/ /\ cth' = Goto(t, "s_unwind")
          /\ UNCHANGED devs
    /\ UNCHANGED <<capture, samples, pending, chist>>
    /\ OnlyCapture

\* Start after a failed device.Start(): under c.mu, c.device.Uninit() and
\* c.device = nil; the call panics on a c.device already set to nil
StartUnwind(t) ==
    /\ At(t, "s_unwind") /\ MuFree
    /\ devs' = StopDevice(devs, capture.device)
    /\ capture' = [capture EXCEPT !.device = 0]
    /\ cth' = IF capture.device = 0 THEN [cth EXCEPT ![t] = Outside]
              ELSE Goto(t, "s_fail")
    /\ UNCHANGED <<samples, pending, chist>>
    /\ OnlyCapture

\* Start: the goroutine waiting for ctx.Done() is spawned, Start returns nil;
\* the session is known by the device it started
StartSpawn(t) ==
    /\ At(t, "s_spawn")
    /\ pending' = pending + 1
    /\ chist' = [chist EXCEPT !.waiting = @ \cup {cth[t].dev}]
    /\ cth' = [cth EXCEPT ![t] = Outside]
    /\ UNCHANGED <<capture, samples, devs>>
    /\ OnlyCapture

\* Stop: running.CompareAndSwap(true, false)
StopSwap(t) ==
    IF capture.running
    THEN /\ capture' = [capture EXCEPT !.running = FALSE]
         /\ cth' = Goto(t, "t_lock")
    ELSE UNCHANGED <<capture, cth>>

StopBegin(t) ==
    /\ CanCall(t)
    /\ chist' = Called
    /\ StopSwap(t)
    /\ UNCHANGED <<samples, devs, pending>>
    /\ OnlyCapture

\* the context of one session is cancelled: the goroutine its Start spawned
\* calls Stop
HandlerFire ==
    /\ pending > 0 /\ At("handler", "idle")
    /\ pending' = pending - 1
    /\ \E session \in chist.waiting :
          /\ chist' = [chist EXCEPT !.waiting = @ \ {session}]
          /\ IF capture.running
             THEN /\ capture' = [capture EXCEPT !.running = FALSE]
                  /\ cth' = [cth EXCEPT !["handler"] =
                                [at |-> "t_lock", dev |-> session, buf |-> 0]]
             ELSE UNCHANGED <<capture, cth>>
    /\ UNCHANGED <<samples, devs>>
    /\ OnlyCapture

\* Stop: under c.mu, the device is stopped and released; an error of
\* device.Stop() returns at once
StopLocked(t) ==
    /\ At(t, "t_lock") /\ MuFree
    /\ \/ /\ CallbackDone(capture.device)
          /\ devs' = StopDevice(devs, capture.device)
          /\ capture' = [capture EXCEPT !.device = 0]
          /\ chist' = IF t = "handler"
                      THEN [chist EXCEPT !.cancelStop =
                              [by |-> cth[t].dev, dev |-> capture.device,
                               uncancelled |-> capture.device \in chist.waiting]]
                      ELSE chist
       \/ /\ capture.device # 0
          /\ UNCHANGED <<devs, capture, chist>>
    /\ cth' = [cth EXCEPT ![t] = Outside]
    /\ UNCHANGED <<samples, pending>>
    /\ OnlyCapture

\* Close: closed.Store(true)
CloseBegin(t) ==
    /\ CanCall(t)
    /\ chist' = Called
    /\ capture' = [capture EXCEPT !.closed = TRUE]
    /\ cth' = Goto(t, "c_lock")
    /\ UNCHANGED <<samples, devs, pending>>
    /\ OnlyCapture

\* Close with the device of a running capture stopped: c.device = nil and
\* running.Store(false)
Released(c) ==
    IF c.running /\ c.device # 0 THEN [c EXCEPT !.device = 0, !.running = FALSE]
    ELSE c

\* Close: c.mu.Lock(), the device and the context are released; an error of
\* device.Stop() or of ctx.Uninit() returns at once (the deferred Unlock runs)
CloseLocked(t) ==
    /\ At(t, "c_lock") /\ MuFree
    /\ \/ /\ IF capture.running /\ capture.device # 0
             THEN /\ CallbackDone(capture.device)
                  /\ devs' = StopDevice(devs, capture.device)
             ELSE UNCHANGED devs
          /\ \/ /\ capture' = [Released(capture) EXCEPT !.ctx = "nil", !.mu = t]
                /\ cth' = Goto(t, "c_once")
             \/ /\ capture.ctx # "nil"
                /\ capture' = Released(capture)
                /\ cth' = [cth EXCEPT ![t] = Outside]
       \/ /\ capture.running /\ capture.device # 0
          /\ cth' = [cth EXCEPT ![t] = Outside]
          /\ UNCHANGED <<capture, devs>>
    /\ UNCHANGED <<samples, pending, chist>>
    /\ OnlyCapture

\* a Close whose channel close is not guarded by closeOnce
CloseOnceUnguarded(t) ==
    /\ At(t, "c_once")
    /\ samples' = [samples EXCEPT !.closed = TRUE]
    /\ chist' = [chist EXCEPT !.closes = @ + 1, !.closeReturned = TRUE]
    /\ capture' = [capture EXCEPT !.once = TRUE, !.mu = "free"]
    /\ cth' = [cth EXCEPT ![t] = Outside]
    /\ UNCHANGED <<devs, pending>>
    /\ OnlyCapture

\* Close: closeOnce.Do(close(c.Samples)), the deferred Unlock, return nil
CloseOnce(t) ==
    /\ At(t, "c_once")
    /\ samples' = [samples EXCEPT !.closed = TRUE]
    /\ chist' = [chist EXCEPT !.closes = IF capture.once THEN @ ELSE @ + 1,
                              !.closeReturned = TRUE]
    /\ capture' = [capture EXCEPT !.once = TRUE, !.mu = "free"]
    /\ cth' = [cth EXCEPT ![t] = Outside]
    /\ UNCHANGED <<devs, pending>>
    /\ OnlyCapture

\* a device is started: its thread delivers frames
DeviceStarted == \E d \in 1..Len(devs) : devs[d] = "started"

\* onRecvFrames up to closed.Load(): a buffer is copied for the channel
\* unless the flag is set
AudioFrame ==
    /\ At("audio", "idle") /\ DeviceStarted
    /\ chist.frames < MaxFrames
    /\ IF capture.closed
       THEN UNCHANGED <<chist, cth>>
       ELSE /\ chist' = [chist EXCEPT !.frames = @ + 1]
            /\ cth' = [cth EXCEPT !["audio"] = [at |-> "a_send", dev |-> 0,
                                                buf |-> chist.frames + 1]]
    /\ UNCHANGED <<capture, samples, devs, pending>>
    /\ OnlyCapture

\* a hand-off that appends whatever the channel holds
HandOffUnbounded(ch, buf) ==
    IF ch.closed THEN [queue |-> ch.queue, outcome |-> "panic"]
    ELSE [queue |-> Append(ch.queue, buf), outcome |-> "sent"]

\* what a hand-off of buf to the channel ch does: a send on a closed channel
\* panics, a full channel takes the default case
HandOff(ch, buf) ==
    IF ch.closed THEN [queue |-> ch.queue, outcome |-> "panic"]
    ELSE IF Len(ch.queue) >= SampleChannelBufferSize
         THEN [queue |-> ch.queue, outcome |-> "dropped"]
         ELSE [queue |-> Append(ch.queue, buf), outcome |-> "sent"]

\* a safeSend without the deferred recover
SafeSendUnrecovered(h, sent) ==
    [h EXCEPT !.escaped = IF sent.outcome = "panic" THEN @ + 1 ELSE @]

\* safeSend's deferred recover: a panic of the send stays inside
SafeSend(h, sent) ==
    [h EXCEPT !.recovered = IF sent.outcome = "panic" THEN @ + 1 ELSE @]

\* onRecvFrames: c.safeSend(copyFloat32Slice(samples))
AudioSend ==
    /\ At("audio", "a_send")
    /\ LET sent == HandOff(samples, cth["audio"].buf)
       IN  /\ samples' = [samples EXCEPT !.queue = sent.queue]
           /\ chist' = [SafeSend(chist, sent) EXCEPT
                          !.last = [buf |-> cth["audio"].buf,
                                    before |-> samples.queue,
                                    after |-> sent.queue,
                                    outcome |-> sent.outcome]]
    /\ cth' = [cth EXCEPT !["audio"] = Outside]
    /\ UNCHANGED <<capture, devs, pending>>
    /\ OnlyCapture

\* a consumer receives the buffer at the head of the channel
Receive ==
    /\ samples.queue # << >>
    /\ chist.received < MaxReceives
    /\ samples' = [samples EXCEPT !.queue = Tail(@)]
    /\ chist' = [chist EXCEPT !.received = @ + 1]
    /\ UNCHANGED <<capture, devs, cth, pending>>
    /\ OnlyCapture

InitCapture ==
    /\ NewDecoder(DefaultDecoderConfig)
    /\ NewAdaptiveDecoder(DefaultAdaptiveConfig, DefaultInterCharBoundary)
    /\ pat = 0 /\ pos = 0
    /\ NewDetector(DefaultDetectorConfig, DefaultBlockSize)
    /\ NewCapture
    /\ NoGoertzel

NextCapture ==
    \/ \E t \in CaptureCallers : CaptureInit(t)
    \/ \E t \in CaptureCallers : StartBegin(t)
    \/ \E t \in CaptureCallers : StartCheck(t)
    \/ \E t \in CaptureCallers : StartFail(t)
    \/ \E t \in CaptureCallers : StartInitDevice(t)
    \/ \E t \in CaptureCallers : StartStore(t)
    \/ \E t \in CaptureCallers : StartDevice(t)
    \/ \E t \in CaptureCallers : StartUnwind(t)
    \/ \E t \in CaptureCallers : StartSpawn(t)
    \/ \E t \in CaptureCallers : StopBegin(t)
    \/ HandlerFire
    \/ \E t \in CaptureCallers \cup {"handler"} : StopLocked(t)
    \/ \E t \in CaptureCallers : CloseBegin(t)
    \/ \E t \in CaptureCallers : CloseLocked(t)
    \/ \E t \in CaptureCallers : CloseOnce(t)
    \/ AudioFrame
    \/ AudioSend
    \/ Receive

SpecCapture == InitCapture /\ [][NextCapture]_vars

\* C24: however concurrent Close calls interleave with the audio thread's
\* sends, the Samples channel is closed at most once, no panic of a send
\* leaves safeSend, and a closed channel implies a set closed flag
SamplesClosedOnceAndSafely ==
    /\ chist.closes <= 1
    /\ chist.escaped = 0
    /\ samples.closed => capture.closed

\* a second Close reaches closeOnce after the channel was closed and a send
\* on the closed channel has been recovered
SecondCloseAfterRecoveredSend ==
    /\ samples.closed
    /\ chist.closes = 1
    /\ chist.recovered > 0
    /\ \E t \in CaptureCallers : At(t, "c_once")

\* C25 as stated: a hand-off never blocks; with the channel at capacity the
\* buffer is dropped and the queue unchanged, otherwise the buffer is appended
\* at the tail
HandOffAppendsUnlessFull ==
    /\ At("audio", "a_send") => ENABLED AudioSend
    /\ chist.last.outcome # "none" =>
          IF Len(chist.last.before) = SampleChannelBufferSize
          THEN chist.last.after = chist.last.before
          ELSE chist.last.after = Append(chist.last.before, chist.last.buf)

\* C25 amended: a hand-off never blocks; with the channel closed or at capacity
\* the buffer is dropped and the queue unchanged, otherwise the buffer is
\* appended at the tail
HandOffAppendsUnlessFullOrClosed ==
    /\ At("audio", "a_send") => ENABLED AudioSend
    /\ chist.last.outcome # "none" =>
          IF \/ chist.last.outcome = "panic"
             \/ Len(chist.last.before) = SampleChannelBufferSize
          THEN chist.last.after = chist.last.before
          ELSE chist.last.after = Append(chist.last.before, chist.last.buf)

\* a buffer was dropped at a channel holding its full capacity
BufferDroppedAtCapacity ==
    /\ chist.last.outcome = "dropped"
    /\ Len(samples.queue) = SampleChannelBufferSize
    /\ chist.last.after = samples.queue

\* C26 as stated: once a successful Close has returned, and every Start, Stop
\* and cancellation handler that overlapped it has returned, IsRunning() is
\* false and no device is started
ClosedCaptureIsStopped ==
    (/\ chist.closeReturned
     /\ ~chist.lateInit
     /\ \A t \in CaptureCallers \cup {"handler"} : At(t, "idle"))
    => (~capture.running /\ ~DeviceStarted)

----------------------------------------------------------------------------
(* The AGC peak over the whole range of attack and decay *)

\* agc_attack and agc_decay at the ends and inside [0, 1]
UnitRates == {<<0, 1>>, <<1, 2>>, <<1, 1>>}

FloorConfigs ==
    { [Threshold |-> <<1, 2>>, Hysteresis |-> 1, AGCEnabled |-> agc,
       AGCAttack |-> a, AGCDecay |-> d, AGCWarmupBlocks |-> w,
       OverlapPct |-> 0] :
        agc \in BOOLEAN, a \in UnitRates, d \in UnitRates, w \in {0, 1, 2} }

InitFloor ==
    /\ \E cfg \in FloorConfigs : NewDetector(cfg, DefaultBlockSize)
    /\ NewCapture
    /\ NoGoertzel
    /\ NewDecoder(DefaultDecoderConfig)
    /\ NewAdaptiveDecoder(DefaultAdaptiveConfig, DefaultInterCharBoundary)
    /\ pat = 0 /\ pos = 0

NextFloor == ProcessBlock \/ DetReset

SpecFloor == InitFloor /\ [][NextFloor]_vars

\* C28: once warmup has completed, agc_peak >= 0.001 after every processed
\* block and after Reset, for magnitudes >= 0 and attack and decay in [0, 1]
PeakStaysAboveFloor ==
    det.warmupCounter >= dcfg.AGCWarmupBlocks => RLe(MinPeak, det.agcPeak)

\* after warmup a block was processed whose decayed peak fell under the
\* floor, and the peak stands at the floor
PeakHeldAtFloor ==
    /\ dcfg.AGCEnabled /\ dcfg.AGCWarmupBlocks > 0
    /\ det.warmupCounter >= dcfg.AGCWarmupBlocks
    /\ dcfg.AGCDecay = <<0, 1>>
    /\ hist # << >>
    /\ det.agcPeak = MinPeak

----------------------------------------------------------------------------
(* The Decoder with a Farnsworth speed configured *)

\* farnsworth_wpm off, below initial_wpm, and equal to initial_wpm
FarnsworthWPMs == {0, 10, 20}

FarnsworthConfigs ==
    { [InitialWPM |-> 20, AdaptiveTiming |-> TRUE, AdaptiveSmoothing |-> <<1, 2>>,
       DitDahBoundary |-> <<2, 1>>, CharWordBoundary |-> <<5, 1>>,
       FarnsworthWPM |-> f] : f \in FarnsworthWPMs }

InitFarnsworth ==
    /\ \E cfg \in FarnsworthConfigs : NewDecoder(cfg)
    /\ NewAdaptiveDecoder(DefaultAdaptiveConfig, DefaultInterCharBoundary)
    /\ pat = 0 /\ pos = 0
    /\ NewDetector(DefaultDetectorConfig, DefaultBlockSize)
    /\ NewCapture
    /\ NoGoertzel

NextFarnsworth == ToneOff \/ ToneOn \/ SetCallback

SpecFarnsworth == InitFarnsworth /\ [][NextFarnsworth]_vars

\* the gap of the last tone-on event exceeds ratio spacing dits
GapExceeds(spacing, ratio) == RGt(RInt(last.us \div 1000), RMul(spacing, ratio))

\* the last tone-on event met a character under construction
GapClassified == last.op = "toneOn" /\ last.inChar

\* the last tone-on event ended the character iff its gap exceeds one spacing
\* dit or the word boundary, and delivered a word space iff it exceeds the
\* word boundary
ClassifiedWith(spacing) ==
    LET word == GapExceeds(spacing, config.CharWordBoundary)
        char == GapExceeds(spacing, RInt(IntraCharSpaceRatio))
    IN  /\ ~inChar <=> (char \/ word)
        /\ last.cb # "nil" =>
              ((\E i \in 1..Len(last.out) : last.out[i].IsWordSpace) <=> word)

\* C29: with 0 < farnsworth_wpm < initial_wpm the gap of a tone-on event is
\* classified with the fixed spacing dit 60000 / (farnsworth_wpm * 50) ms,
\* whatever the current dit estimate; with farnsworth_wpm = 0 or
\* farnsworth_wpm = initial_wpm it is classified with the dit estimate
FarnsworthFixesSpacingDit ==
    GapClassified =>
        IF 0 < config.FarnsworthWPM /\ config.FarnsworthWPM < config.InitialWPM
        THEN ClassifiedWith(Norm(60000, config.FarnsworthWPM * 50))
        ELSE ClassifiedWith(last.dit)

\* with Farnsworth spacing in force and a dit estimate that has adapted, a gap
\* that exceeds the word boundary of the estimate ended the character without
\* a word space
FarnsworthOverridesAdaptedDit ==
    /\ GapClassified /\ last.cb # "nil"
    /\ 0 < config.FarnsworthWPM /\ config.FarnsworthWPM < config.InitialWPM
    /\ last.dit # InitialDit(config)
    /\ GapExceeds(last.dit, config.CharWordBoundary)
    /\ ~inChar
    /\ \A i \in 1..Len(last.out) : ~last.out[i].IsWordSpace

----------------------------------------------------------------------------
(* NewGoertzel of internal/dsp/goertzel.go over a range of configurations *)

\* a NewGoertzel that checks the sample rate before the block size
NewGoertzelRateFirst(cfg) ==
    IF RLe(cfg.SampleRate, RZero)
    THEN [estimator |-> << >>, err |-> "ErrInvalidSampleRate"]
    ELSE IF cfg.BlockSize <= 0
    THEN [estimator |-> << >>, err |-> "ErrInvalidBlockSize"]
    ELSE IF \/ RLe(cfg.TargetFrequency, RZero)
            \/ RLe(RDiv(cfg.SampleRate, RInt(2)), cfg.TargetFrequency)
    THEN [estimator |-> << >>, err |-> "ErrInvalidFrequency"]
    ELSE [estimator |-> <<[config |-> cfg,
                           normalizer |-> Norm(2, cfg.BlockSize)]>>,
          err |-> "nil"]

\* NewGoertzel: the three checks in order, then the estimator
NewGoertzel(cfg) ==
    IF cfg.BlockSize <= 0
    THEN [estimator |-> << >>, err |-> "ErrInvalidBlockSize"]
    ELSE IF RLe(cfg.SampleRate, RZero)
    THEN [estimator |-> << >>, err |-> "ErrInvalidSampleRate"]
    ELSE IF \/ RLe(cfg.TargetFrequency, RZero)
            \/ RLe(RDiv(cfg.SampleRate, RInt(2)), cfg.TargetFrequency)
    THEN [estimator |-> << >>, err |-> "ErrInvalidFrequency"]
    ELSE [estimator |-> <<[config |-> cfg,
                           normalizer |-> Norm(2, cfg.BlockSize)]>>,
          err |-> "nil"]

\* block sizes, sample rates and target frequencies around every check
GoertzelBlockSizes == {-1, 0, 1, 512}
GoertzelSampleRates == {<<-8000, 1>>, <<0, 1>>, <<1, 2>>, <<8000, 1>>, <<44100, 1>>}
GoertzelFrequencies ==
    {<<-600, 1>>, <<0, 1>>, <<1, 8>>, <<1, 4>>, <<600, 1>>, <<7999, 2>>,
     <<4000, 1>>, <<5000, 1>>, <<22050, 1>>, <<44101, 2>>}

Construct ==
    /\ goertzel = NotConstructed
    /\ goertzel' = NewGoertzel(gconfig)
    /\ UNCHANGED <<gconfig, capture, samples, devs, cth, pending, chist>>
    /\ UNCHANGED <<decVars, feedVars, refVars, detVars, aconfig, elementBuffer,
                   patternMatches, correctedCallback, corrected, interCharBoundary,
                   recorded, lastRecord, mu, amu, thr>>

InitGoertzel ==
    /\ gconfig \in [BlockSize : GoertzelBlockSizes, SampleRate : GoertzelSampleRates,
                    TargetFrequency : GoertzelFrequencies]
    /\ goertzel = NotConstructed
    /\ NewDecoder(DefaultDecoderConfig)
    /\ NewAdaptiveDecoder(DefaultAdaptiveConfig, DefaultInterCharBoundary)
    /\ pat = 0 /\ pos = 0
    /\ NewDetector(DefaultDetectorConfig, DefaultBlockSize)
    /\ NewCapture

NextGoertzel == Construct

SpecGoertzel == InitGoertzel /\ [][NextGoertzel]_vars

Positive(x) == RGt(x, RZero)

\* block_size > 0, sample_rate > 0 and 0 < tone_frequency < sample_rate / 2
ValidGoertzelConfig ==
    /\ gconfig.BlockSize > 0
    /\ Positive(gconfig.SampleRate)
    /\ Positive(gconfig.TargetFrequency)
    /\ RGt(gconfig.SampleRate, RMul(RInt(2), gconfig.TargetFrequency))

\* C30: NewGoertzel returns an estimator iff block_size > 0, sample_rate > 0
\* and 0 < tone_frequency < sample_rate / 2; otherwise it returns no estimator
\* and the error of the first failing check in the order block size, sample
\* rate, frequency
NewGoertzelValidatesInOrder ==
    goertzel # NotConstructed =>
        IF ValidGoertzelConfig
        THEN /\ Len(goertzel.estimator) = 1
             /\ goertzel.estimator[1].config = gconfig
             /\ goertzel.err = "nil"
        ELSE /\ goertzel.estimator = << >>
             /\ goertzel.err =
                  IF gconfig.BlockSize <= 0 THEN "ErrInvalidBlockSize"
                  ELSE IF ~Positive(gconfig.SampleRate) THEN "ErrInvalidSampleRate"
                  ELSE "ErrInvalidFrequency"

\* a configuration failing all three checks was rejected for its block size
AllChecksFailBlockSizeReported ==
    /\ gconfig.BlockSize <= 0
    /\ ~Positive(gconfig.SampleRate)
    /\ ~Positive(gconfig.TargetFrequency)
    /\ goertzel.estimator = << >>
    /\ goertzel.err = "ErrInvalidBlockSize"

----------------------------------------------------------------------------
(* The warmup of the AGC, with the warmup magnitudes kept *)

MaxWarmupBlocks == 3

\* block magnitudes in [0, 1]: silence, at and just above the warmup gate,
\* weak, loud
WarmupMagnitudes == {<<0, 1>>, <<1, 1000>>, <<1, 500>>, <<1, 4>>, <<1, 1>>}

WarmupConfigs ==
    { [Threshold |-> <<1, 2>>, Hysteresis |-> 1, AGCEnabled |-> TRUE,
       AGCAttack |-> <<1, 1>>, AGCDecay |-> <<1, 1>>, AGCWarmupBlocks |-> w,
       OverlapPct |-> 0] : w \in 1..MaxWarmupBlocks }

\* processBlock on one block; a warmup block's magnitude is kept in the log
LoggedBlock ==
    /\ blocks < MaxBlocks /\ CanTrack(det)
    /\ \E magnitude \in WarmupMagnitudes :
          LET res == ProcessBlockOf(det, dcfg, magnitude, now + 1)
          IN  /\ det' = res.det
              /\ emitted' = res.event
              /\ hist' = IF res.warmup THEN hist
                         ELSE Append1(hist, [present |-> res.tonePresent,
                                             before |-> det.toneState])
              /\ log' = IF res.warmup
                        THEN Append(log, [kind |-> "warmup", magnitude |-> magnitude])
                        ELSE log
    /\ now' = now + 1
    /\ blocks' = blocks + 1
    /\ UNCHANGED <<dcfg, overlapBuffer, geomVars, detCallbackPtr, pc, loaded,
                   delivered, pushed, stored, decVars, feedVars, adaVars, refVars>>

InitWarmup ==
    /\ \E cfg \in WarmupConfigs : NewDetector(cfg, DefaultBlockSize)
    /\ NewCapture
    /\ NoGoertzel
    /\ NewDecoder(DefaultDecoderConfig)
    /\ NewAdaptiveDecoder(DefaultAdaptiveConfig, DefaultInterCharBoundary)
    /\ pat = 0 /\ pos = 0

NextWarmup == LoggedBlock

SpecWarmup == InitWarmup /\ [][NextWarmup]_vars

RECURSIVE MaxMagnitude(_)
\* the largest magnitude of a non-empty log of warmup blocks
MaxMagnitude(l) ==
    IF Len(l) = 1 THEN l[1].magnitude
    ELSE LET rest == MaxMagnitude(Tail(l))
         IN  IF RGt(l[1].magnitude, rest) THEN l[1].magnitude ELSE rest

\* the last warmup block has just been processed
WarmupJustEnded ==
    /\ dcfg.AGCEnabled /\ dcfg.AGCWarmupBlocks >= 1
    /\ blocks = dcfg.AGCWarmupBlocks
    /\ Len(log) = dcfg.AGCWarmupBlocks

\* C33 as stated: with AGC enabled and W >= 1 warmup blocks of magnitudes in
\* [0, 1], agc_peak at the end of warmup is the largest magnitude of the W
\* blocks, a silent first block included
WarmupPeakIsMaximum ==
    WarmupJustEnded => det.agcPeak = MaxMagnitude(log)

\* every Start, Stop and Close call and every cancellation handler has returned
AllCallsReturned == \A t \in CaptureCallers \cup {"handler"} : At(t, "idle")

\* the Capture holds a started device
HoldsStartedDevice ==
    IF capture.device = 0 THEN FALSE ELSE devs[capture.device] = "started"

\* C38 as stated: once all Start, Stop and Close calls have returned,
\* IsRunning() is true iff the Capture holds exactly one started device, and
\* no started device exists that the Capture no longer references. (A device
\* is only ever started on a Capture whose Init succeeded.)
RunningIffDeviceHeld ==
    AllCallsReturned =>
        /\ capture.running <=> HoldsStartedDevice
        /\ \A d \in 1..Len(devs) : devs[d] = "started" => capture.device = d

\* C39 as stated: cancelling the context passed to a Start call stops only
\* the session that call started: the device a cancellation handler stops is
\* never the device of a later session whose own context is not cancelled
CancellationStopsOwnSessionOnly ==
    (chist.cancelStop.dev # 0 /\ chist.cancelStop.uncancelled)
        => chist.cancelStop.dev = chist.cancelStop.by

----------------------------------------------------------------------------
(* Process over every kind of block geometry *)

\* block sizes handed to NewDetector, 0 among them
HopBlockSizes == {0, 1, 3, 4}

\* overlap percentages handed to NewDetector: the ends of 0..99, the middle,
\* and 100
HopOverlaps == {0, 50, 99, 100}

HopConfigs ==
    { [Threshold |-> <<1, 2>>, Hysteresis |-> 1, AGCEnabled |-> FALSE,
       AGCAttack |-> <<1, 1>>, AGCDecay |-> <<1, 2>>, AGCWarmupBlocks |-> 0,
       OverlapPct |-> o] : o \in HopOverlaps }

\* the configurations NewDetector accepts
InitHop ==
    /\ \E cfg \in HopConfigs, bs \in HopBlockSizes : NewDetector(cfg, bs)
    /\ NewCapture
    /\ NoGoertzel
    /\ NewDecoder(DefaultDecoderConfig)
    /\ NewAdaptiveDecoder(DefaultAdaptiveConfig, DefaultInterCharBoundary)
    /\ pat = 0 /\ pos = 0

\* Process calls, one after the other
NextHop == ProcessPush \/ ProcessStep \/ ProcessInvoke

\* a Process call that has started runs on: its loop is sequential code
SpecHop ==
    /\ InitHop /\ [][NextHop]_vars
    /\ WF_vars(ProcessStep) /\ WF_vars(ProcessInvoke)

\* C40: for every configuration NewDetector accepts the hop is at least 1,
\* every Process call returns after finitely many blocks, each pass of its
\* loop shortening the buffer, and it leaves fewer than block_size samples
\* in the carry-over buffer
ProcessTerminatesBelowBlockSize ==
    /\ [](hopSize >= 1)
    /\ [](pc = "idle" => Len(overlapBuffer) < blockSize)
    /\ [][(pc # "idle" /\ overlapBuffer' # overlapBuffer)
             => Len(overlapBuffer') < Len(overlapBuffer)]_vars
    /\ (pc # "idle") ~> (pc = "idle")

\* with 99 percent overlap of a block of four, a Process call has run two
\* blocks one sample apart and returned with three samples carried over
HopOfOneCarriesThree ==
    /\ dcfg.OverlapPct = 99 /\ blockSize = 4 /\ hopSize = 1
    /\ pc = "idle" /\ blocks >= 2 /\ Len(overlapBuffer) = 3

====
